---- MODULE Spec2Model ----
(***************************************************************************)
(* A model of CoinbaseTradingAgent (src/unnamed/part_001): the monitoring  *)
(* loop that refreshes market data, scans the price alerts and executes    *)
(* the enabled strategies, and the trade submission it calls.              *)
(*                                                                         *)
(* Every await of a monitoring cycle resolves in the microtask queue (no   *)
(* timer or I/O is awaited), so a cycle runs to completion before any      *)
(* other timer or caller runs: one cycle is one action.  The               *)
(* specifications of the steps take a timer callback one await at a time,  *)
(* with the work an alert callback started and nobody awaits beside it.    *)
(*                                                                         *)
(* Numbers are integers.  Prices, targets and thresholds are exact; the    *)
(* z-score and the grid tolerance are compared by cross-multiplication,    *)
(* so no rounding of the IEEE doubles of the source is modelled.           *)
(***************************************************************************)
EXTENDS Integers, Sequences, FiniteSets, TLC

\* ------------------------------------------------------------- records
\* The shapes of the records of the model.  Every record below is written
\* with its fields in the order they have here.
PriceAlert ==
    [id : Nat, productId : STRING, targetPrice : Nat,
     condition : {"above", "below"}, active : BOOLEAN,
     callback : {"none", "ok", "throw", "trade"}]

\* The parameters of the four kinds of strategy.
DCAParameters ==
    [amountPerTrade : STRING, intervalMinutes : Nat, lastExecution : Nat]
GridParameters ==
    [lowerPrice : Nat, upperPrice : Nat, gridLevels : Nat,
     amountPerLevel : STRING, activeLevels : Seq(Nat)]
MomentumParameters == [threshold : Nat, tradeAmount : STRING, lastPrice : Nat]
MeanReversionParameters ==
    [tradeAmount : STRING, lookbackPeriod : Nat, stdDevThreshold : Nat,
     priceHistory : Seq(Nat)]

\* name, a string built from the type and the product, is left out.
TradingStrategy ==
    [id : Nat, productId : STRING, enabled : BOOLEAN,
     type : {"dca", "grid", "momentum", "mean_reversion"},
     parameters : DCAParameters \cup GridParameters \cup MomentumParameters
                    \cup MeanReversionParameters]

\* A market order has no limitPrice.
TradeConfig ==
    [productId : STRING, orderType : {"market"}, side : {"buy", "sell"},
     amount : STRING]
    \cup [productId : STRING, orderType : {"limit"}, side : {"buy", "sell"},
          amount : STRING, limitPrice : STRING]

\* tradeDetails of executeTrade: its id and the config spread into it, then
\* status, timestamp and executedPrice.
TradeDetails ==
    [id : Nat, productId : STRING, orderType : {"market"},
     side : {"buy", "sell"}, amount : STRING, status : {"completed"},
     timestamp : Nat, executedPrice : Nat]
    \cup [id : Nat, productId : STRING, orderType : {"limit"},
          side : {"buy", "sell"}, amount : STRING, limitPrice : STRING,
          status : {"completed"}, timestamp : Nat, executedPrice : Nat]

\* What emit is given: the event and its payload, which for "priceAlert" is
\* the record below and for "tradeExecuted" the tradeDetails.
PriceAlertPayload ==
    [productId : STRING, targetPrice : Nat, alertId : Nat, currentPrice : Nat]
Emitted ==
    [event : {"priceAlert"}, payload : PriceAlertPayload]
    \cup [event : {"tradeExecuted"}, payload : TradeDetails]

\* A call of an alert's callback: the flag of the alert at the time of the
\* call, and the price the callback is given.
CallbackCall == [active : BOOLEAN, alertId : Nat, price : Nat]

\* A "Grid level hit" line: the strategy and the index of the grid line.
GridHit == [id : Nat, level : Nat]

\* A call a user of the agent made, as the user saw it: the method and its
\* arguments, the error it threw ("" if none) or the value it returned, and
\* the number of monitoring cycles run before it (value is null when the
\* call threw).  A call of the strategy
\* registry also has what listStrategies() returned right after it.
TradeCall ==
    [op : {"executeTrade"}, args : TradeConfig, err : STRING,
     value : TradeDetails, at : Nat]
QueryCall ==
    [op : {"getMarketData", "getCurrentPrice"}, args : STRING, err : STRING,
     value : Nat, at : Nat]
RegistryCall ==
    [op : {"enableStrategy", "disableStrategy"}, args : Nat,
     value : BOOLEAN, at : Nat, listed : Seq(TradingStrategy)]
CreationCall ==
    [op : {"createStrategy"}, args : {0}, value : Nat, at : Nat,
     listed : Seq(TradingStrategy)]
\* A call of removePriceAlert has what listPriceAlerts() returned after it.
RemovalCall ==
    [op : {"removePriceAlert"}, args : Nat, value : BOOLEAN, at : Nat,
     listed : Seq(PriceAlert)]

\* An evaluation of a strategy in a cycle: the price it read (null if
\* none), the error its evaluator threw ("" if none) and the trades it pushed.
Evaluation ==
    [id : Nat, type : {"dca", "grid", "momentum", "mean_reversion"},
     price : Nat, err : STRING, trades : Seq(TradeDetails)]

\* ------------------------------------------------------------- bounds
\* Monitoring cycles of one behaviour.
MaxCycles == 3
\* Price alerts created in one behaviour.
MaxAlerts == 2
\* Strategies created in one behaviour.
MaxStrategies == 2
\* initialize() calls of one behaviour.
MaxInit == 2
\* Calls of the trading and registry methods, by a user, that one behaviour
\* records in trail.
MaxCalls == 3

\* ---------------------------------------------------------- constants
\* null / undefined of the source.  Every number the model stores in a
\* nullable field (a price, a clock reading) is positive, so 0 is free,
\* and it is falsy as null is.
null == 0
Truthy(x) == x # null

\* The products updateMarketData refreshes, and one it never does.
mockProducts == {"BTC-USD", "ETH-USD", "SOL-USD"}
Products == mockProducts \cup {"DOGE-USD"}

\* What a caller-supplied function (an alert's callback, an event
\* listener) does when it is called: nothing there, returns, or throws.
Behaviours == {"none", "ok", "throw"}

\* An alert's callback may also be the one of main(), an async function
\* that awaits agent.marketBuy("ETH-USD", "0.1"): "trade".  The submission
\* it starts goes on in the microtask queue, one stage a turn: "called"
\* (getCurrentPrice awaits the snapshot), "priced" (executeTrade awaits the
\* price), "pushed" (the record is in orderHistory and the event emitted;
\* the promise of marketBuy is not resolved yet), "resolved" (the callback
\* has not resumed yet), and then the callback returns.  "rejected" is a
\* submission that threw: the promise of the callback, which nothing
\* handles, is rejected.
Stages == {"called", "priced", "pushed", "resolved", "rejected"}

VARIABLES
    account,            \* this.account: null until initialize succeeds
    monitoringInterval, \* this.monitoringInterval: the last timer handle
    timers,             \* the timer handles that are set and not cleared
    alive,              \* FALSE once an unhandled rejection ended the process
    now,                \* Date.now() of the last cycle, in ms
    cycles,             \* number of monitoring cycles run
    marketData,         \* this.marketData: productId -> price
    priceAlerts,        \* this.priceAlerts, in insertion order
    strategies,         \* this.strategies, in insertion order
    orderHistory,       \* this.orderHistory
    listeners,          \* what the listeners of each event do
    emitted,            \* every event emitted, in order
    called,             \* every alert callback invocation, in order
    nextAlert,          \* alert ids generated so far
    nextStrategy,       \* strategy ids generated so far
    origin,             \* for each record of orderHistory, who submitted it
    evalLog,            \* the strategy evaluations of the last cycle
    hit,                \* the "Grid level hit" lines the last cycle logged
    prevHit,            \* those the cycle before it logged
    trail,              \* the calls the users made and what they returned
    closed,             \* close() returned and initialize() was not called since
    running,            \* the timer callbacks that have started and not ended
    refreshed,          \* for each of them, the snapshots its refresh wrote
    inflight            \* the trade submissions of alert callbacks under way

vars == <<account, monitoringInterval, timers, alive, now, cycles, marketData,
          priceAlerts, strategies, orderHistory, listeners, emitted, called,
          nextAlert, nextStrategy, origin, evalLog, hit, prevHit,
          trail, closed, running, refreshed, inflight>>

\* trail, closed, running, refreshed and inflight are written by the
\* specifications that observe calls, close() and the steps of a timer
\* callback; the others leave them.
observers == <<trail, closed, running, refreshed, inflight>>

\* ------------------------------------------------------------ helpers
Range(s) == {s[i] : i \in 1..Len(s)}

\* The index of the entry of Map m (a sequence of records with an id) whose
\* key is id, 0 if none.
IndexOf(m, id) ==
    IF \E i \in 1..Len(m) : m[i].id = id
    THEN CHOOSE i \in 1..Len(m) : m[i].id = id
    ELSE 0

\* Map.delete: the sequence without its entry i.
Without(m, i) == [j \in 1..(Len(m) - 1) |-> IF j < i THEN m[j] ELSE m[j + 1]]

\* ------------------------------------------------------- initial state
Init ==
    /\ account = null
    /\ monitoringInterval = null
    /\ timers = {}
    /\ alive = TRUE
    /\ now = 1
    /\ cycles = 0
    /\ marketData = << >>
    /\ priceAlerts = << >>
    /\ strategies = << >>
    /\ orderHistory = << >>
    /\ listeners = [priceAlert |-> "none", tradeExecuted |-> "none"]
    /\ emitted = << >>
    /\ called = << >>
    /\ nextAlert = 0
    /\ nextStrategy = 0
    /\ origin = << >>
    /\ evalLog = << >>
    /\ hit = {}
    /\ prevHit = {}
    /\ trail = << >>
    /\ closed = FALSE
    /\ running = << >>
    /\ refreshed = << >>
    /\ inflight = << >>

\* Every reachable state has the shapes above.
TypeOK ==
    /\ account \in Nat /\ monitoringInterval \in Nat
    /\ timers \subseteq Nat /\ alive \in BOOLEAN
    /\ now \in Nat /\ cycles \in Nat
    /\ DOMAIN marketData \subseteq mockProducts
    /\ \A p \in DOMAIN marketData : marketData[p] \in Nat \ {null}
    /\ \A i \in 1..Len(priceAlerts) : priceAlerts[i] \in PriceAlert
    /\ \A i \in 1..Len(strategies) : strategies[i] \in TradingStrategy
    /\ \A i \in 1..Len(orderHistory) : orderHistory[i] \in TradeDetails
    /\ \A i \in 1..Len(emitted) : emitted[i] \in Emitted
    /\ \A i \in 1..Len(called) : called[i] \in CallbackCall
    /\ \A i \in 1..Len(evalLog) : evalLog[i] \in Evaluation
    /\ hit \subseteq GridHit /\ prevHit \subseteq GridHit
    /\ Len(origin) = Len(orderHistory)
    /\ \A i \in 1..Len(trail) :
          IF trail[i].op \in {"getMarketData", "getCurrentPrice"}
          THEN trail[i] \in QueryCall
          ELSE IF trail[i].op = "createStrategy" THEN trail[i] \in CreationCall
          ELSE IF trail[i].op = "removePriceAlert" THEN trail[i] \in RemovalCall
          ELSE IF trail[i].op # "executeTrade" THEN trail[i] \in RegistryCall
          ELSE IF trail[i].err = "" THEN trail[i] \in TradeCall
          ELSE trail[i].value = null /\ trail[i].args \in TradeConfig
    /\ closed \in BOOLEAN
    /\ running \in Seq({"updateMarketData", "checkPriceAlerts",
                        "executeActiveStrategies"})
    /\ Len(refreshed) = Len(running)
    /\ \A k \in 1..Len(refreshed) : DOMAIN refreshed[k] = mockProducts
    /\ inflight \in Seq(Stages)

\* --------------------------------------------------------- the machine
\* The part of the state a monitoring cycle reads and writes, as one value
\* that the operators below thread through the statements of the source.
\* evalLog and hit start empty in every cycle.
Machine ==
    [priceAlerts |-> priceAlerts, strategies |-> strategies,
     orderHistory |-> orderHistory, emitted |-> emitted, called |-> called,
     origin |-> origin, evalLog |-> << >>, hit |-> {}, inflight |-> inflight]

\* The outcome of a call: the machine after it, and the error it threw
\* ("" when it returned).
Ok(m) == [err |-> "", m |-> m]
Throw(m, e) == [err |-> e, m |-> m]

\* (mutant) emit delivers the event twice.
emitTwice(m, event, payload) ==
    LET e == [event |-> event, payload |-> payload]
        m1 == [m EXCEPT !.emitted = Append(Append(@, e), e)]
    IN  IF listeners[event] = "throw" THEN Throw(m1, "ListenerError") ELSE Ok(m1)

\* EventEmitter.emit: the listeners run synchronously inside emit, and what
\* a listener throws, emit throws.
emit(m, event, payload) ==
    LET m1 == [m EXCEPT !.emitted =
                   Append(@, [event |-> event, payload |-> payload])]
    IN  IF listeners[event] = "throw" THEN Throw(m1, "ListenerError") ELSE Ok(m1)

\* --------------------------------------------------------- market data
\* updateMarketData: every mock product gets a fresh snapshot; mock[p] is
\* the price Math.random() gave it.
updateMarketData(md, mock) ==
    [p \in (DOMAIN md) \cup mockProducts |->
        IF p \in mockProducts THEN mock[p] ELSE md[p]]

\* getMarketData: the snapshot, or null.
getMarketData(md, productId) ==
    IF productId \in DOMAIN md THEN md[productId] ELSE null

\* (mutant) no check of what getMarketData gave.
getCurrentPriceNeverThrows(md, productId) == FALSE

\* getCurrentPrice throws exactly when getMarketData gives null.
getCurrentPriceThrows(md, productId) == ~Truthy(getMarketData(md, productId))

\* getCurrentPrice as its caller sees it: the error it threw, or the price
\* of the snapshot getMarketData gave.
getCurrentPrice(md, productId) ==
    IF getCurrentPriceThrows(md, productId)
    THEN [err |-> "NotFound", value |-> null]
    ELSE [err |-> "", value |-> getMarketData(md, productId)]

\* ------------------------------------------------------ trade submission
\* (mutant) no check of the account.
executeTradeUnchecked(m, md, t, config, who) ==
    IF getCurrentPriceThrows(md, config.productId) THEN Throw(m, "NotFound")
    ELSE
        LET tradeDetails ==
                [id |-> t, productId |-> config.productId,
                 orderType |-> config.orderType, side |-> config.side,
                 amount |-> config.amount, status |-> "completed",
                 timestamp |-> t,
                 executedPrice |-> getMarketData(md, config.productId)]
            m1 == [m EXCEPT !.orderHistory = Append(@, tradeDetails),
                            !.origin = Append(@, who)]
        IN  emit(m1, "tradeExecuted", tradeDetails)

\* (mutant) the record is pushed before its price is read.
executeTradePushFirst(m, md, t, config, who) ==
    LET tradeDetails ==
            [id |-> t, productId |-> config.productId,
             orderType |-> config.orderType, side |-> config.side,
             amount |-> config.amount, status |-> "completed",
             timestamp |-> t,
             executedPrice |-> getMarketData(md, config.productId)]
        m1 == [m EXCEPT !.orderHistory = Append(@, tradeDetails),
                        !.origin = Append(@, who)]
    IN  IF ~Truthy(account) THEN Throw(m, "NotInitialized")
        ELSE IF getCurrentPriceThrows(md, config.productId)
             THEN Throw(m1, "NotFound")
        ELSE emit(m1, "tradeExecuted", tradeDetails)

\* (mutant) the record is put at the head of the history.
executeTradeUnshift(m, md, t, config, who) ==
    IF ~Truthy(account) THEN Throw(m, "NotInitialized")
    ELSE IF getCurrentPriceThrows(md, config.productId) THEN Throw(m, "NotFound")
    ELSE
        LET tradeDetails ==
                IF config.orderType = "limit"
                THEN [id |-> t, productId |-> config.productId,
                      orderType |-> config.orderType, side |-> config.side,
                      amount |-> config.amount, limitPrice |-> config.limitPrice,
                      status |-> "completed", timestamp |-> t,
                      executedPrice |-> getMarketData(md, config.productId)]
                ELSE [id |-> t, productId |-> config.productId,
                      orderType |-> config.orderType, side |-> config.side,
                      amount |-> config.amount, status |-> "completed",
                      timestamp |-> t,
                      executedPrice |-> getMarketData(md, config.productId)]
            m1 == [m EXCEPT !.orderHistory = <<tradeDetails>> \o @,
                            !.origin = <<who>> \o @]
        IN  emit(m1, "tradeExecuted", tradeDetails)

\* executeTrade at time t against the snapshots md; who names the caller
\* (a strategy id, or 0 for a direct call) in the origin log.
executeTrade(m, md, t, config, who) ==
    IF ~Truthy(account) THEN Throw(m, "NotInitialized")
    ELSE IF getCurrentPriceThrows(md, config.productId) THEN Throw(m, "NotFound")
    ELSE
        LET tradeDetails ==
                IF config.orderType = "limit"
                THEN [id |-> t, productId |-> config.productId,
                      orderType |-> config.orderType, side |-> config.side,
                      amount |-> config.amount, limitPrice |-> config.limitPrice,
                      status |-> "completed", timestamp |-> t,
                      executedPrice |-> getMarketData(md, config.productId)]
                ELSE [id |-> t, productId |-> config.productId,
                      orderType |-> config.orderType, side |-> config.side,
                      amount |-> config.amount, status |-> "completed",
                      timestamp |-> t,
                      executedPrice |-> getMarketData(md, config.productId)]
            m1 == [m EXCEPT !.orderHistory = Append(@, tradeDetails),
                            !.origin = Append(@, who)]
        IN  emit(m1, "tradeExecuted", tradeDetails)

marketBuy(m, md, t, productId, amount, who) ==
    executeTrade(m, md, t,
        [productId |-> productId, orderType |-> "market", side |-> "buy",
         amount |-> amount], who)

marketSell(m, md, t, productId, amount, who) ==
    executeTrade(m, md, t,
        [productId |-> productId, orderType |-> "market", side |-> "sell",
         amount |-> amount], who)

limitBuy(m, md, t, productId, amount, limitPrice, who) ==
    executeTrade(m, md, t,
        [productId |-> productId, orderType |-> "limit", side |-> "buy",
         amount |-> amount, limitPrice |-> limitPrice], who)

limitSell(m, md, t, productId, amount, limitPrice, who) ==
    executeTrade(m, md, t,
        [productId |-> productId, orderType |-> "limit", side |-> "sell",
         amount |-> amount, limitPrice |-> limitPrice], who)

\* --------------------------------------------------------- price alerts
\* One turn of the microtask queue for the submissions under way, from the
\* one at index i on: each goes one stage on, the one that was "priced"
\* running the rest of executeTrade at the time of the cycle, and the one
\* that was "resolved" ending.
RECURSIVE turnFrom(_, _, _)
turnFrom(m, md, i) ==
    IF i > Len(m.inflight)
    THEN [m EXCEPT !.inflight = SelectSeq(@, LAMBDA stage : stage # "returned")]
    ELSE LET stage == m.inflight[i]
             r == marketBuy(m, md, now, "ETH-USD", "0.1", 0)
         IN  IF stage = "called"
             THEN turnFrom([m EXCEPT !.inflight[i] = "priced"], md, i + 1)
             ELSE IF stage = "priced"
             THEN turnFrom([r.m EXCEPT !.inflight[i] =
                               IF r.err = "" THEN "pushed" ELSE "rejected"],
                           md, i + 1)
             ELSE IF stage = "pushed"
             THEN turnFrom([m EXCEPT !.inflight[i] = "resolved"], md, i + 1)
             ELSE IF stage = "resolved"
             THEN turnFrom([m EXCEPT !.inflight[i] = "returned"], md, i + 1)
             ELSE turnFrom(m, md, i + 1)

turn(m, md) == turnFrom(m, md, 1)

\* (mutant) the comparisons are strict.
triggeredStrict(alert, price) ==
    \/ (alert.condition = "above" /\ price > alert.targetPrice)
    \/ (alert.condition = "below" /\ price < alert.targetPrice)

\* The trigger condition of checkPriceAlerts.
triggered(alert, price) ==
    \/ (alert.condition = "above" /\ price >= alert.targetPrice)
    \/ (alert.condition = "below" /\ price <= alert.targetPrice)

\* The block of checkPriceAlerts that runs for a triggered alert: emit, then
\* the callback, then active = false; a throw leaves the rest undone.  The
\* callback is called and not awaited: the submission a "trade" callback
\* starts is under way when the call returns.
fireAlert(m, md, i) ==
    LET alert == m.priceAlerts[i]
        e == emit(m, "priceAlert",
                  [productId |-> alert.productId,
                   targetPrice |-> alert.targetPrice, alertId |-> alert.id,
                   currentPrice |-> md[alert.productId]])
        m1 == IF alert.callback = "none" THEN e.m
              ELSE [e.m EXCEPT !.called =
                       Append(@, [active |-> e.m.priceAlerts[i].active,
                                  alertId |-> alert.id,
                                  price |-> md[alert.productId]])]
        m2 == IF alert.callback = "trade"
              THEN [m1 EXCEPT !.inflight = Append(@, "called")]
              ELSE m1
    IN  IF e.err # "" THEN e
        ELSE IF alert.callback = "throw" THEN Throw(m2, "CallbackError")
        ELSE Ok([m2 EXCEPT !.priceAlerts[i].active = FALSE])

\* (mutant) an alert whose condition no longer holds is armed again.
checkOneAlertRearm(m, md, i) ==
    LET alert == m.priceAlerts[i] IN
    IF ~Truthy(getMarketData(md, alert.productId)) THEN Ok(m)
    ELSE IF ~triggered(alert, md[alert.productId])
         THEN Ok([m EXCEPT !.priceAlerts[i].active = TRUE])
    ELSE IF ~alert.active THEN Ok(m)
    ELSE fireAlert(m, md, i)

\* (mutant) the price is read as getCurrentPrice reads it, which throws
\* when there is no snapshot.
checkOneAlertNoSnapshotThrows(m, md, i) ==
    LET alert == m.priceAlerts[i] IN
    IF ~alert.active THEN Ok(m)
    ELSE IF getCurrentPriceThrows(md, alert.productId) THEN Throw(m, "NotFound")
    ELSE IF ~triggered(alert, md[alert.productId]) THEN Ok(m)
    ELSE fireAlert(m, md, i)

\* The body of the loop of checkPriceAlerts for the alert at index i.  The
\* await of getMarketData, for an active alert, is one turn of the
\* microtask queue.
checkOneAlert(m, md, i) ==
    LET alert == m.priceAlerts[i] IN
    IF ~alert.active THEN Ok(m)
    ELSE IF ~Truthy(getMarketData(md, alert.productId)) THEN Ok(turn(m, md))
    ELSE IF ~triggered(alert, md[alert.productId]) THEN Ok(turn(m, md))
    ELSE fireAlert(turn(m, md), md, i)

\* checkPriceAlerts from index i on: the loop stops at the first throw.
RECURSIVE checkPriceAlertsFrom(_, _, _)
checkPriceAlertsFrom(m, md, i) ==
    IF i > Len(m.priceAlerts) THEN Ok(m)
    ELSE LET r == checkOneAlert(m, md, i)
         IN  IF r.err # "" THEN r ELSE checkPriceAlertsFrom(r.m, md, i + 1)

checkPriceAlerts(m, md) == checkPriceAlertsFrom(m, md, 1)

\* ----------------------------------------------------------- strategies
\* One entry of evalLog: the strategy evaluated, the price it read (null if
\* it read none), the error its evaluator threw and the trades it pushed.
evaluation(s, price, r, m0) ==
    [id |-> s.id, type |-> s.type, price |-> price, err |-> r.err,
     trades |-> SubSeq(r.m.orderHistory, Len(m0.orderHistory) + 1,
                       Len(r.m.orderHistory))]

Logged(m0, s, price, r) ==
    [r EXCEPT !.m.evalLog = Append(@, evaluation(s, price, r, m0))]

\* The milliseconds of intervalMinutes.
IntervalMs(intervalMinutes) == intervalMinutes * 60 * 1000

\* (mutant) the DCA evaluator sells.
executeDCAStrategySells(m, md, t, i) ==
    LET s == m.strategies[i]
        p == s.parameters
    IN  IF Truthy(p.lastExecution) /\ (t - p.lastExecution) < IntervalMs(p.intervalMinutes)
        THEN Ok(m)
        ELSE LET r == marketSell(m, md, t, s.productId, p.amountPerTrade, s.id)
             IN  IF r.err # "" THEN r
                 ELSE Ok([r.m EXCEPT !.strategies[i].parameters.lastExecution = t])

\* (mutant) the DCA evaluator sets lastExecution before it buys.
executeDCAStrategyStampsFirst(m, md, t, i) ==
    LET s == m.strategies[i]
        p == s.parameters
    IN  IF Truthy(p.lastExecution) /\ (t - p.lastExecution) < IntervalMs(p.intervalMinutes)
        THEN Ok(m)
        ELSE marketBuy([m EXCEPT !.strategies[i].parameters.lastExecution = t],
                       md, t, s.productId, p.amountPerTrade, s.id)

executeDCAStrategy(m, md, t, i) ==
    LET s == m.strategies[i]
        p == s.parameters
    IN  IF Truthy(p.lastExecution) /\ (t - p.lastExecution) < IntervalMs(p.intervalMinutes)
        THEN Ok(m)
        ELSE LET r == marketBuy(m, md, t, s.productId, p.amountPerTrade, s.id)
             IN  IF r.err # "" THEN r
                 ELSE Ok([r.m EXCEPT !.strategies[i].parameters.lastExecution = t])

Abs(x) == IF x < 0 THEN -x ELSE x

\* The grid lines the loop of executeGridStrategy logs as hit.  With
\* gridSize = (upperPrice - lowerPrice) / gridLevels, line i is hit when
\* |currentPrice - (lowerPrice + i * gridSize)| < gridSize * 0.1; both sides
\* are multiplied by 10 * gridLevels here.
gridHits(p, currentPrice) ==
    {i \in 0..(p.gridLevels - 1) :
        10 * Abs(currentPrice * p.gridLevels - p.lowerPrice * p.gridLevels
                 - i * (p.upperPrice - p.lowerPrice))
            < (p.upperPrice - p.lowerPrice)}

\* (mutant) the grid evaluator buys amountPerLevel when a line is hit.
executeGridStrategyTrades(m, md, t, i) ==
    LET s == m.strategies[i]
        hits == IF getCurrentPriceThrows(md, s.productId) THEN {}
                ELSE gridHits(s.parameters, md[s.productId])
        m1 == [m EXCEPT !.hit = @ \cup {[id |-> s.id, level |-> l] : l \in hits}]
    IN  IF getCurrentPriceThrows(md, s.productId) THEN Throw(m, "NotFound")
        ELSE IF hits = {} THEN Ok(m1)
        ELSE marketBuy(m1, md, t, s.productId, s.parameters.amountPerLevel, s.id)

executeGridStrategy(m, md, t, i) ==
    LET s == m.strategies[i]
    IN  IF getCurrentPriceThrows(md, s.productId) THEN Throw(m, "NotFound")
        ELSE Ok([m EXCEPT !.hit = @ \cup
                    {[id |-> s.id, level |-> l] :
                        l \in gridHits(s.parameters, md[s.productId])}])

\* |priceChange| >= threshold, with priceChange = (currentPrice - lastPrice)
\* / lastPrice * 100 and lastPrice > 0, multiplied through by lastPrice.
momentumSignal(p, currentPrice) ==
    Abs(currentPrice - p.lastPrice) * 100 >= p.threshold * p.lastPrice

\* (mutant) on a signal the momentum evaluator buys and sells.
executeMomentumStrategyHedges(m, md, t, i) ==
    LET s == m.strategies[i]
        p == s.parameters
        currentPrice == getMarketData(md, s.productId)
        b == marketBuy(m, md, t, s.productId, p.tradeAmount, s.id)
        r == IF Truthy(p.lastPrice) /\ momentumSignal(p, currentPrice)
             THEN IF b.err # "" THEN b
                  ELSE marketSell(b.m, md, t, s.productId, p.tradeAmount, s.id)
             ELSE Ok(m)
    IN  IF getCurrentPriceThrows(md, s.productId) THEN Throw(m, "NotFound")
        ELSE IF r.err # "" THEN r
        ELSE Ok([r.m EXCEPT !.strategies[i].parameters.lastPrice = currentPrice])

executeMomentumStrategy(m, md, t, i) ==
    LET s == m.strategies[i]
        p == s.parameters
        currentPrice == getMarketData(md, s.productId)
        r == IF Truthy(p.lastPrice) /\ momentumSignal(p, currentPrice)
             THEN IF currentPrice > p.lastPrice
                  THEN marketBuy(m, md, t, s.productId, p.tradeAmount, s.id)
                  ELSE marketSell(m, md, t, s.productId, p.tradeAmount, s.id)
             ELSE Ok(m)
    IN  IF getCurrentPriceThrows(md, s.productId) THEN Throw(m, "NotFound")
        ELSE IF r.err # "" THEN r
        ELSE Ok([r.m EXCEPT !.strategies[i].parameters.lastPrice = currentPrice])

RECURSIVE Sum(_)
Sum(h) == IF h = << >> THEN 0 ELSE Head(h) + Sum(Tail(h))

\* The sum over the prices of h of (n * (price - mean))^2, for the mean S / n.
RECURSIVE SumSq(_, _, _)
SumSq(h, n, S) ==
    IF h = << >> THEN 0
    ELSE (n * Head(h) - S) * (n * Head(h) - S) + SumSq(Tail(h), n, S)

\* (mutant) the window drops its newest price, not its oldest.
pushPriceKeepsOldest(p, currentPrice) ==
    LET h == Append(p.priceHistory, currentPrice)
    IN  IF Len(h) > p.lookbackPeriod THEN SubSeq(h, 1, Len(h) - 1) ELSE h

\* priceHistory after the push of currentPrice and the shift that keeps it
\* within lookbackPeriod.
pushPrice(p, currentPrice) ==
    LET h == Append(p.priceHistory, currentPrice)
    IN  IF Len(h) > p.lookbackPeriod THEN Tail(h) ELSE h

\* zScore = (currentPrice - mean) / stdDev over the n prices of h, kept as
\* the pair (num, rad) with zScore = num / sqrt(rad):
\*   num = n * (currentPrice - mean)  and  rad = n * n * variance,
\* for the population mean and variance of the source.  The sum of the
\* (n * (price - mean))^2 is n^3 * variance, a multiple of n.
zScore(h, currentPrice) ==
    [num |-> Len(h) * currentPrice - Sum(h),
     rad |-> SumSq(h, Len(h), Sum(h)) \div Len(h)]

\* (mutant) the comparison is not strict: !(zScore >= -threshold).
zLessOrNaN(z, c) ==
    IF z.rad = 0 THEN z.num <= 0
    ELSE IF z.num < 0 /\ c >= 0 THEN TRUE
    ELSE IF z.num >= 0 /\ c <= 0 THEN FALSE
    ELSE IF z.num >= 0 THEN z.num * z.num < c * c * z.rad
    ELSE z.num * z.num > c * c * z.rad

\* num / sqrt(rad) < c as IEEE 754 decides it: with rad = 0 the quotient is
\* NaN (num = 0), which compares false with everything, or an infinity.
zLess(z, c) ==
    IF z.rad = 0 THEN z.num < 0
    ELSE IF z.num < 0 /\ c >= 0 THEN TRUE
    ELSE IF z.num >= 0 /\ c <= 0 THEN FALSE
    ELSE IF z.num >= 0 THEN z.num * z.num < c * c * z.rad
    ELSE z.num * z.num > c * c * z.rad

\* (mutant) the comparison is inclusive: zScore >= threshold.
zGreaterOrEqual(z, c) == IF z.rad = 0 THEN z.num > 0 ELSE ~zLess(z, c)

\* num / sqrt(rad) > c.
zGreater(z, c) == zLess([z EXCEPT !.num = -z.num], -c)

executeMeanReversionStrategy(m, md, t, i) ==
    LET s == m.strategies[i]
        p == s.parameters
        currentPrice == getMarketData(md, s.productId)
        h == pushPrice(p, currentPrice)
        m1 == [m EXCEPT !.strategies[i].parameters.priceHistory = h]
        z == zScore(h, currentPrice)
    IN  IF getCurrentPriceThrows(md, s.productId) THEN Throw(m, "NotFound")
        ELSE IF Len(h) # p.lookbackPeriod THEN Ok(m1)
        ELSE IF zLess(z, -p.stdDevThreshold)
             THEN marketBuy(m1, md, t, s.productId, p.tradeAmount, s.id)
        ELSE IF zGreater(z, p.stdDevThreshold)
             THEN marketSell(m1, md, t, s.productId, p.tradeAmount, s.id)
        ELSE Ok(m1)

\* The switch of executeActiveStrategies.
evaluate(m, md, t, i) ==
    LET type == m.strategies[i].type
    IN  IF type = "dca" THEN executeDCAStrategy(m, md, t, i)
        ELSE IF type = "grid" THEN executeGridStrategy(m, md, t, i)
        ELSE IF type = "momentum" THEN executeMomentumStrategy(m, md, t, i)
        ELSE executeMeanReversionStrategy(m, md, t, i)

\* The price an evaluator reads by getCurrentPrice (DCA reads none itself).
priceRead(md, s) ==
    IF s.type = "dca" THEN null ELSE getMarketData(md, s.productId)

\* (mutant) no try/catch: what an evaluator throws ends the loop.
RECURSIVE executeActiveStrategiesFromUncaught(_, _, _, _)
executeActiveStrategiesFromUncaught(m, md, t, i) ==
    IF i > Len(m.strategies) THEN m
    ELSE IF ~m.strategies[i].enabled
         THEN executeActiveStrategiesFromUncaught(m, md, t, i + 1)
         ELSE LET s == m.strategies[i]
                  r == evaluate(m, md, t, i)
                  l == Logged(m, s, priceRead(md, s), r)
              IN  IF r.err # "" THEN l.m
                  ELSE executeActiveStrategiesFromUncaught(l.m, md, t, i + 1)

\* (mutant) the loop evaluates the disabled strategies too.
RECURSIVE executeActiveStrategiesFromEvery(_, _, _, _)
executeActiveStrategiesFromEvery(m, md, t, i) ==
    IF i > Len(m.strategies) THEN m
    ELSE LET s == m.strategies[i]
             r == evaluate(m, md, t, i)
             l == Logged(m, s, priceRead(md, s), r)
         IN  executeActiveStrategiesFromEvery(l.m, md, t, i + 1)

\* executeActiveStrategies from index i on: a disabled strategy is skipped,
\* and what an evaluator throws is caught and logged, so the loop goes on.
RECURSIVE executeActiveStrategiesFrom(_, _, _, _)
executeActiveStrategiesFrom(m, md, t, i) ==
    IF i > Len(m.strategies) THEN m
    ELSE IF ~m.strategies[i].enabled
         THEN executeActiveStrategiesFrom(m, md, t, i + 1)
         ELSE LET s == m.strategies[i]
                  r == evaluate(m, md, t, i)
                  l == Logged(m, s, priceRead(md, s), r)
              IN  executeActiveStrategiesFrom(l.m, md, t, i + 1)

executeActiveStrategies(m, md, t) == executeActiveStrategiesFrom(m, md, t, 1)

\* -------------------------------------------------------------- actions
\* (mutant) initialize starts the monitoring whether createAccount gave an
\* account or failed.
initializeStartsAnyway ==
    /\ alive
    /\ monitoringInterval < MaxInit
    /\ account' \in {account, 1}
    /\ monitoringInterval' = monitoringInterval + 1
    /\ timers' = timers \cup {monitoringInterval + 1}
    /\ UNCHANGED <<alive, now, cycles, marketData, priceAlerts, strategies,
                   orderHistory, listeners, emitted, called, nextAlert,
                   nextStrategy, origin, evalLog, hit, prevHit>>

\* initialize: createAccount either fails, and nothing changes, or gives an
\* account, and startMonitoring sets a new timer whose handle replaces the
\* one monitoringInterval held.
initialize ==
    /\ alive
    /\ monitoringInterval < MaxInit
    /\ \/ UNCHANGED vars
       \/ /\ account' = 1
          /\ monitoringInterval' = monitoringInterval + 1
          /\ timers' = timers \cup {monitoringInterval + 1}
          /\ UNCHANGED <<alive, now, cycles, marketData, priceAlerts, strategies,
                         orderHistory, listeners, emitted, called, nextAlert,
                         nextStrategy, origin, evalLog, hit, prevHit>>

\* close(): clearInterval of the handle monitoringInterval holds, if it holds
\* one; the field keeps the handle.
close ==
    /\ alive
    /\ timers' = IF Truthy(monitoringInterval)
                 THEN timers \ {monitoringInterval} ELSE timers
    /\ closed' = TRUE
    /\ UNCHANGED <<account, monitoringInterval, alive, now, cycles, marketData,
                   priceAlerts, strategies, orderHistory, listeners, emitted,
                   called, nextAlert, nextStrategy, origin, evalLog, hit,
                   prevHit, trail, running, refreshed, inflight>>

\* initialize() returned the account, having called startMonitoring():
\* close() is no longer the last of the two to have been called.  (When
\* createAccount throws, nothing changes.)
started == closed' = FALSE /\ UNCHANGED <<trail, running, refreshed, inflight>>

\* agent.on(event, listener).  The specifications register listeners that
\* throw: one that returns leaves every cycle as it is without a listener.
on(event, behaviour) ==
    /\ alive
    /\ listeners[event] = "none"
    /\ listeners' = [listeners EXCEPT ![event] = behaviour]
    /\ UNCHANGED <<account, monitoringInterval, timers, alive, now, cycles,
                   marketData, priceAlerts, strategies, orderHistory, emitted,
                   called, nextAlert, nextStrategy, origin, evalLog, hit, prevHit>>

\* createPriceAlert.  The generated id (clock and random suffix) is taken to
\* be fresh.
createPriceAlert(productId, targetPrice, condition, callback) ==
    /\ alive
    /\ nextAlert < MaxAlerts
    /\ nextAlert' = nextAlert + 1
    /\ priceAlerts' = Append(priceAlerts,
            [id |-> nextAlert + 1, productId |-> productId,
             targetPrice |-> targetPrice, condition |-> condition,
             active |-> TRUE, callback |-> callback])
    /\ UNCHANGED <<account, monitoringInterval, timers, alive, now, cycles,
                   marketData, strategies, orderHistory, listeners, emitted,
                   called, nextStrategy, origin, evalLog, hit, prevHit>>

\* (mutant) the alert is kept in the Map, with its flag cleared.
removePriceAlertDeactivates(alertId) ==
    /\ alive
    /\ priceAlerts' = IF IndexOf(priceAlerts, alertId) = 0 THEN priceAlerts
                      ELSE [priceAlerts EXCEPT
                               ![IndexOf(priceAlerts, alertId)].active = FALSE]
    /\ UNCHANGED <<account, monitoringInterval, timers, alive, now, cycles,
                   marketData, strategies, orderHistory, listeners, emitted,
                   called, nextAlert, nextStrategy, origin, evalLog, hit, prevHit>>

\* removePriceAlert: Map.delete, which changes nothing for an absent id.
removePriceAlert(alertId) ==
    /\ alive
    /\ priceAlerts' = IF IndexOf(priceAlerts, alertId) = 0 THEN priceAlerts
                      ELSE Without(priceAlerts, IndexOf(priceAlerts, alertId))
    /\ UNCHANGED <<account, monitoringInterval, timers, alive, now, cycles,
                   marketData, strategies, orderHistory, listeners, emitted,
                   called, nextAlert, nextStrategy, origin, evalLog, hit, prevHit>>

\* listPriceAlerts: the values of the Map, in insertion order.
listPriceAlerts(map) == map

\* trail gets a call of removePriceAlert, which returns what Map.delete
\* returns, whether the Map had the key, with what listPriceAlerts()
\* returns after it.
removed(alertId) ==
    /\ Len(trail) < MaxCalls
    /\ trail' = Append(trail,
          [op |-> "removePriceAlert", args |-> alertId,
           value |-> (IndexOf(priceAlerts, alertId) # 0), at |-> cycles,
           listed |-> listPriceAlerts(priceAlerts')])
    /\ UNCHANGED <<closed, running, refreshed, inflight>>

\* createStrategy, called by the four create...Strategy methods.
createStrategy(strategy) ==
    /\ alive
    /\ nextStrategy < MaxStrategies
    /\ nextStrategy' = nextStrategy + 1
    /\ strategies' = Append(strategies,
            [id |-> nextStrategy + 1, productId |-> strategy.productId,
             enabled |-> strategy.enabled, type |-> strategy.type,
             parameters |-> strategy.parameters])
    /\ UNCHANGED <<account, monitoringInterval, timers, alive, now, cycles,
                   marketData, priceAlerts, orderHistory, listeners, emitted,
                   called, nextAlert, origin, evalLog, hit, prevHit>>

createDCAStrategy(productId, amountPerTrade, intervalMinutes) ==
    createStrategy([productId |-> productId, enabled |-> TRUE, type |-> "dca",
        parameters |-> [amountPerTrade |-> amountPerTrade,
                        intervalMinutes |-> intervalMinutes,
                        lastExecution |-> null]])

createGridStrategy(productId, lowerPrice, upperPrice, gridLevels, amountPerLevel) ==
    createStrategy([productId |-> productId, enabled |-> TRUE, type |-> "grid",
        parameters |-> [lowerPrice |-> lowerPrice, upperPrice |-> upperPrice,
                        gridLevels |-> gridLevels,
                        amountPerLevel |-> amountPerLevel,
                        activeLevels |-> << >>]])

createMomentumStrategy(productId, threshold, tradeAmount) ==
    createStrategy([productId |-> productId, enabled |-> TRUE, type |-> "momentum",
        parameters |-> [threshold |-> threshold, tradeAmount |-> tradeAmount,
                        lastPrice |-> null]])

createMeanReversionStrategy(productId, lookbackPeriod, stdDevThreshold, tradeAmount) ==
    createStrategy([productId |-> productId, enabled |-> TRUE,
        type |-> "mean_reversion",
        parameters |-> [tradeAmount |-> tradeAmount,
                        lookbackPeriod |-> lookbackPeriod,
                        stdDevThreshold |-> stdDevThreshold,
                        priceHistory |-> << >>]])

\* (mutant) enableStrategy leaves the flag as it is.
setEnabledOnlyDisables(strategyId, enabled) ==
    /\ alive
    /\ strategies' = IF IndexOf(strategies, strategyId) = 0 \/ enabled
                     THEN strategies
                     ELSE [strategies EXCEPT
                              ![IndexOf(strategies, strategyId)].enabled = enabled]
    /\ UNCHANGED <<account, monitoringInterval, timers, alive, now, cycles,
                   marketData, priceAlerts, orderHistory, listeners, emitted,
                   called, nextAlert, nextStrategy, origin, evalLog, hit, prevHit>>

\* (mutant) the flag is flipped.
setEnabledFlips(strategyId, enabled) ==
    /\ alive
    /\ strategies' = IF IndexOf(strategies, strategyId) = 0 THEN strategies
                     ELSE [strategies EXCEPT
                              ![IndexOf(strategies, strategyId)].enabled = ~@]
    /\ UNCHANGED <<account, monitoringInterval, timers, alive, now, cycles,
                   marketData, priceAlerts, orderHistory, listeners, emitted,
                   called, nextAlert, nextStrategy, origin, evalLog, hit, prevHit>>

\* enableStrategy / disableStrategy: nothing changes for an absent id.
setEnabled(strategyId, enabled) ==
    /\ alive
    /\ strategies' = IF IndexOf(strategies, strategyId) = 0 THEN strategies
                     ELSE [strategies EXCEPT
                              ![IndexOf(strategies, strategyId)].enabled = enabled]
    /\ UNCHANGED <<account, monitoringInterval, timers, alive, now, cycles,
                   marketData, priceAlerts, orderHistory, listeners, emitted,
                   called, nextAlert, nextStrategy, origin, evalLog, hit, prevHit>>

enableStrategy(strategyId) == setEnabled(strategyId, TRUE)
disableStrategy(strategyId) == setEnabled(strategyId, FALSE)

\* What enableStrategy and disableStrategy return: whether
\* this.strategies.get(strategyId) gave a strategy.
found(strategyId) == IndexOf(strategies, strategyId) # 0

\* listStrategies: the values of the Map, in insertion order.
listStrategies(map) == map

\* trail gets a call of a create...Strategy method, which returns the new id,
\* and a call of enableStrategy or disableStrategy, each with what
\* listStrategies() returns after it.  args is null for a creation, whose
\* arguments are in the strategy listed.
created ==
    /\ trail' = Append(trail,
          [op |-> "createStrategy", args |-> null, value |-> nextStrategy',
           at |-> cycles, listed |-> listStrategies(strategies')])
    /\ UNCHANGED <<closed, running, refreshed, inflight>>

toggles == Cardinality({i \in 1..Len(trail) : trail[i].op # "createStrategy"})

toggled(op, strategyId) ==
    /\ toggles < MaxCalls
    /\ trail' = Append(trail,
          [op |-> op, args |-> strategyId, value |-> found(strategyId),
           at |-> cycles, listed |-> listStrategies(strategies')])
    /\ UNCHANGED <<closed, running, refreshed, inflight>>

\* A user calls marketBuy, marketSell, limitBuy or limitSell, `elapsed` ms
\* after the last reading of the clock; limitPrice is null for the first
\* two.  The call runs between two timer callbacks.  trail gets the call,
\* with the rejection of its promise or the value it resolved to.
order(side, orderType, productId, amount, limitPrice, elapsed) ==
    /\ alive
    /\ Len(trail) < MaxCalls
    /\ LET t == now + elapsed
           r == IF orderType = "market"
                THEN IF side = "buy"
                     THEN marketBuy(Machine, marketData, t, productId, amount, 0)
                     ELSE marketSell(Machine, marketData, t, productId, amount, 0)
                ELSE IF side = "buy"
                     THEN limitBuy(Machine, marketData, t, productId, amount,
                                   limitPrice, 0)
                     ELSE limitSell(Machine, marketData, t, productId, amount,
                                    limitPrice, 0)
           config == IF orderType = "market"
                     THEN [productId |-> productId, orderType |-> orderType,
                           side |-> side, amount |-> amount]
                     ELSE [productId |-> productId, orderType |-> orderType,
                           side |-> side, amount |-> amount,
                           limitPrice |-> limitPrice]
       IN  /\ now' = t
           /\ orderHistory' = r.m.orderHistory
           /\ emitted' = r.m.emitted
           /\ origin' = r.m.origin
           /\ trail' = Append(trail,
                  [op |-> "executeTrade", args |-> config, err |-> r.err,
                   value |-> IF r.err = "" THEN r.m.orderHistory[Len(r.m.orderHistory)]
                             ELSE null,
                   at |-> cycles])
    /\ UNCHANGED <<account, monitoringInterval, timers, alive, cycles,
                   marketData, priceAlerts, strategies, listeners, called,
                   nextAlert, nextStrategy, evalLog, hit, prevHit, closed,
                   running, refreshed, inflight>>

\* A user calls getMarketData or getCurrentPrice between two timer
\* callbacks; trail gets the call and what its promise settled to.
query(op, productId) ==
    /\ alive
    /\ Len(trail) < MaxCalls
    /\ LET r == IF op = "getMarketData"
                THEN [err |-> "", value |-> getMarketData(marketData, productId)]
                ELSE getCurrentPrice(marketData, productId)
       IN  trail' = Append(trail,
               [op |-> op, args |-> productId, err |-> r.err, value |-> r.value,
                at |-> cycles])
    /\ UNCHANGED <<account, monitoringInterval, timers, alive, now, cycles,
                   marketData, priceAlerts, strategies, orderHistory, listeners,
                   emitted, called, nextAlert, nextStrategy, origin, evalLog,
                   hit, prevHit, closed, running, refreshed, inflight>>

\* One firing of the timer of startMonitoring, `elapsed` ms after the last
\* one: updateMarketData, checkPriceAlerts, executeActiveStrategies.  What
\* checkPriceAlerts throws rejects the promise of the timer callback, so
\* executeActiveStrategies does not run; nothing handles the rejection, and
\* Node either ends the process (its default since version 15) or warns and
\* goes on.
MonitoringCycle(mock, elapsed) ==
    /\ alive
    /\ timers # {}
    /\ cycles < MaxCycles
    /\ \A i \in 1..Len(priceAlerts) : priceAlerts[i].callback # "trade"
    /\ LET t == now + elapsed
           md == updateMarketData(marketData, mock)
           a == checkPriceAlerts(Machine, md)
           m == IF a.err # "" THEN a.m ELSE executeActiveStrategies(a.m, md, t)
       IN  /\ now' = t
           /\ cycles' = cycles + 1
           /\ marketData' = md
           /\ priceAlerts' = m.priceAlerts
           /\ strategies' = m.strategies
           /\ orderHistory' = m.orderHistory
           /\ emitted' = m.emitted
           /\ called' = m.called
           /\ origin' = m.origin
           /\ evalLog' = m.evalLog
           /\ hit' = m.hit
           /\ prevHit' = hit
           /\ IF a.err # "" THEN alive' \in BOOLEAN ELSE alive' = alive
    /\ UNCHANGED <<account, monitoringInterval, timers, listeners, nextAlert,
                   nextStrategy>>

\* ------------------------------------------- the steps of a timer callback
\* The timer callback awaits updateMarketData(), checkPriceAlerts() and
\* executeActiveStrategies() in turn; an entry of running is the call a
\* callback is awaiting.  The promise of each of the three settles without
\* any I/O or timer (what they await, getMarketData and the trading methods,
\* returns at once), so its continuation is queued as a microtask.
\* refreshed has, for each entry of running, the snapshots the
\* updateMarketData() of that callback wrote.
\* (mutant) checkPriceAlerts waits for something outside the process: its
\* promise settles in a later turn of the event loop.
settlesAfterNotify(call) ==
    IF call = "checkPriceAlerts" THEN "macrotask" ELSE "microtask"

\* (mutant) updateMarketData fetches the prices: its promise settles in a
\* later turn of the event loop.
settlesAfterFetch(call) ==
    IF call = "updateMarketData" THEN "macrotask" ELSE "microtask"

settles(call) == "microtask"

\* The event loop runs a timer callback, and the macrotask a user's call comes
\* from, only when the microtask queue is empty.
Idle ==
    /\ \A k \in 1..Len(running) : settles(running[k]) # "microtask"
    /\ inflight = << >>

\* A timer fires: the callback starts, runs updateMarketData() and awaits it.
timerFires(mock, elapsed) ==
    /\ alive
    /\ timers # {}
    /\ cycles < MaxCycles
    /\ Idle
    /\ now' = now + elapsed
    /\ cycles' = cycles + 1
    /\ marketData' = updateMarketData(marketData, mock)
    /\ running' = Append(running, "updateMarketData")
    /\ refreshed' = Append(refreshed, updateMarketData(marketData, mock))
    /\ UNCHANGED <<account, monitoringInterval, timers, alive, priceAlerts,
                   strategies, orderHistory, listeners, emitted, called,
                   nextAlert, nextStrategy, origin, evalLog, hit, prevHit,
                   trail, closed, inflight>>

\* The callback k goes on after its await: with checkPriceAlerts(), with
\* executeActiveStrategies(), or to its end.  What checkPriceAlerts() throws
\* ends it, as in MonitoringCycle.  The submissions under way take their
\* turns in the same queue: one turn at every await of checkPriceAlerts(),
\* one more before the callback resumes and calls
\* executeActiveStrategies(), and one more before the first evaluator is
\* past its first await; every evaluator writes after two awaits or more,
\* so a submission that was under way when checkPriceAlerts() returned has
\* pushed its record before any strategy writes.
resume(k) ==
    /\ alive
    /\ k \in 1..Len(running)
    /\ settles(running[k]) = "microtask" \/ Idle
    /\ IF running[k] = "updateMarketData"
       THEN LET a == checkPriceAlerts(Machine, marketData)
            IN  /\ priceAlerts' = a.m.priceAlerts
                /\ emitted' = a.m.emitted
                /\ called' = a.m.called
                /\ orderHistory' = a.m.orderHistory
                /\ origin' = a.m.origin
                /\ inflight' = a.m.inflight
                /\ IF a.err # ""
                   THEN /\ running' = Without(running, k)
                        /\ refreshed' = Without(refreshed, k)
                        /\ alive' \in BOOLEAN
                        /\ evalLog' = << >> /\ hit' = {} /\ prevHit' = hit
                   ELSE /\ running' = [running EXCEPT ![k] = "checkPriceAlerts"]
                        /\ UNCHANGED <<alive, evalLog, hit, prevHit, refreshed>>
                /\ UNCHANGED strategies
       ELSE IF running[k] = "checkPriceAlerts"
       THEN LET m == executeActiveStrategies(turn(turn(Machine, marketData), marketData),
                                            marketData, now)
            IN  /\ strategies' = m.strategies
                /\ orderHistory' = m.orderHistory
                /\ emitted' = m.emitted
                /\ origin' = m.origin
                /\ evalLog' = m.evalLog
                /\ hit' = m.hit
                /\ prevHit' = hit
                /\ inflight' = m.inflight
                /\ running' = [running EXCEPT ![k] = "executeActiveStrategies"]
                /\ UNCHANGED <<alive, priceAlerts, called, refreshed>>
       ELSE /\ running' = Without(running, k)
            /\ refreshed' = Without(refreshed, k)
            /\ UNCHANGED <<alive, priceAlerts, strategies, orderHistory, emitted,
                           called, origin, evalLog, hit, prevHit, inflight>>
    /\ UNCHANGED <<account, monitoringInterval, timers, now, cycles, marketData,
                   listeners, nextAlert, nextStrategy, trail, closed>>

\* A turn of the microtask queue in which no timer callback resumes: the
\* submissions under way go one stage on.  When all that is left are
\* rejected promises that nothing handles, the process may end.
settle ==
    /\ alive
    /\ inflight # << >>
    /\ \A k \in 1..Len(running) : running[k] = "executeActiveStrategies"
    /\ IF \A i \in 1..Len(inflight) : inflight[i] = "rejected"
       THEN /\ inflight' = << >>
            /\ alive' \in BOOLEAN
            /\ UNCHANGED <<orderHistory, emitted, origin>>
       ELSE LET m == turn(Machine, marketData)
            IN  /\ inflight' = m.inflight
                /\ orderHistory' = m.orderHistory
                /\ emitted' = m.emitted
                /\ origin' = m.origin
                /\ UNCHANGED alive
    /\ UNCHANGED <<account, monitoringInterval, timers, now, cycles, marketData,
                   priceAlerts, strategies, listeners, called, nextAlert,
                   nextStrategy, evalLog, hit, prevHit, trail, closed, running,
                   refreshed>>

\* ------------------------------------------------------- specifications
\* The time between two firings of the 5000 ms timer: the period, or more
\* when the event loop was busy.
Elapsed == {5000, 55000}

\* The alerts: prices of BTC-USD around the target 45000; an alert is on
\* BTC-USD or on DOGE-USD, which never has a snapshot.  The prices of every
\* feed are in the range [30000, 80000) of mockPrice.
AlertPrices == {44000, 45000, 45500, 46000}
AlertFeed ==
    {[p \in mockProducts |-> IF p = "BTC-USD" THEN x ELSE 50000] : x \in AlertPrices}

NextAlerts ==
    \/ initialize /\ UNCHANGED observers
    \/ on("priceAlert", "throw") /\ UNCHANGED observers
    \/ \E productId \in {"BTC-USD", "DOGE-USD"}, condition \in {"above", "below"},
          callback \in Behaviours :
          createPriceAlert(productId, 45000, condition, callback) /\ UNCHANGED observers
    \/ \E alertId \in 1..MaxAlerts : removePriceAlert(alertId) /\ UNCHANGED observers
    \/ \E mock \in AlertFeed : MonitoringCycle(mock, 5000) /\ UNCHANGED observers

SpecAlerts == Init /\ [][NextAlerts]_vars

\* The DCA and momentum strategies, on BTC-USD: prices 5% apart (40000
\* and 42000), more (38000 and 40000) and less (42000 and 40000).
TradePrices == {38000, 40000, 42000}
TradeFeed ==
    {[p \in mockProducts |-> IF p = "BTC-USD" THEN x ELSE 50000] : x \in TradePrices}

NextTrading ==
    \/ initialize /\ UNCHANGED observers
    \/ on("tradeExecuted", "throw") /\ UNCHANGED observers
    \/ createDCAStrategy("BTC-USD", "0.001", 1) /\ UNCHANGED observers
    \/ createMomentumStrategy("BTC-USD", 5, "1") /\ UNCHANGED observers
    \/ \E strategyId \in 1..MaxStrategies : enableStrategy(strategyId)
          /\ UNCHANGED observers
    \/ \E strategyId \in 1..MaxStrategies : disableStrategy(strategyId)
          /\ UNCHANGED observers
    \/ \E mock \in TradeFeed, elapsed \in Elapsed : MonitoringCycle(mock, elapsed)
          /\ UNCHANGED observers

SpecTrading == Init /\ [][NextTrading]_vars

\* The mean-reversion strategies, on BTC-USD, with a window of 2 or 3 prices
\* and a threshold of 1: the z-score of the last price of a window of two
\* distinct prices is 1 or -1, of (40000, 40000, 40002) it is sqrt(2).
MeanPrices == {40000, 40002}
MeanFeed ==
    {[p \in mockProducts |-> IF p = "BTC-USD" THEN x ELSE 50000] : x \in MeanPrices}

NextMeanReversion ==
    \/ initialize /\ UNCHANGED observers
    \/ on("tradeExecuted", "throw") /\ UNCHANGED observers
    \/ \E lookbackPeriod \in {2, 3} :
          createMeanReversionStrategy("BTC-USD", lookbackPeriod, 1, "0.5")
          /\ UNCHANGED observers
    \/ \E strategyId \in 1..MaxStrategies : enableStrategy(strategyId)
          /\ UNCHANGED observers
    \/ \E strategyId \in 1..MaxStrategies : disableStrategy(strategyId)
          /\ UNCHANGED observers
    \/ \E mock \in MeanFeed : MonitoringCycle(mock, 5000) /\ UNCHANGED observers

SpecMeanReversion == Init /\ [][NextMeanReversion]_vars

\* The windows of the mean-reversion strategies: a threshold of 0 lets a
\* window of two distinct prices signal, so that a strategy trades as soon
\* as its window is full and again after the window let a price go.
NextWindow ==
    \/ initialize /\ UNCHANGED observers
    \/ \E lookbackPeriod \in {2, 3}, stdDevThreshold \in {0, 1} :
          createMeanReversionStrategy("BTC-USD", lookbackPeriod, stdDevThreshold, "0.5")
          /\ UNCHANGED observers
    \/ \E strategyId \in 1..MaxStrategies : disableStrategy(strategyId)
          /\ UNCHANGED observers
    \/ \E mock \in MeanFeed : MonitoringCycle(mock, 5000) /\ UNCHANGED observers

SpecWindow == Init /\ [][NextWindow]_vars

\* The grid strategies, on ETH-USD, between 44500 and 45500 with 10 levels
\* (lines 100 apart, hit within 10) or 4 levels (250 apart, hit within 25):
\* 45003 and 45007 are near the line 45000 of both (level 5 of the first,
\* level 2 of the second), 45010 of the second only, 45050 of none.
GridPrices == {45003, 45007, 45010, 45050}
GridFeed ==
    {[p \in mockProducts |-> IF p = "ETH-USD" THEN x ELSE 45000] : x \in GridPrices}

NextGrid ==
    \/ initialize /\ UNCHANGED observers
    \/ \E gridLevels \in {4, 10} :
          createGridStrategy("ETH-USD", 44500, 45500, gridLevels, "0.05")
          /\ UNCHANGED observers
    \/ \E strategyId \in 1..MaxStrategies : enableStrategy(strategyId)
          /\ UNCHANGED observers
    \/ \E strategyId \in 1..MaxStrategies : disableStrategy(strategyId)
          /\ UNCHANGED observers
    \/ \E mock \in GridFeed : MonitoringCycle(mock, 5000) /\ UNCHANGED observers

SpecGrid == Init /\ [][NextGrid]_vars

\* The lines of a grid, on ETH-USD, between 44500 and 45500 with 10 levels
\* (lower=2000, upper=3000, levels=10 moved into the range of the mock
\* prices: lines 100 apart, hit within 10) or 4 levels: 44503 is near the
\* lower end line, 45003 near the line 45000 (index 5 of 10, index 2 of 4),
\* 45497 near the upper end line, 45050 near none.
LinePrices == {44503, 45003, 45050, 45497}
LineFeed ==
    {[p \in mockProducts |-> IF p = "ETH-USD" THEN x ELSE 45000] : x \in LinePrices}

NextGridLines ==
    \/ initialize /\ UNCHANGED observers
    \/ \E gridLevels \in {4, 10} :
          createGridStrategy("ETH-USD", 44500, 45500, gridLevels, "0.05")
          /\ UNCHANGED observers
    \/ \E strategyId \in 1..MaxStrategies : disableStrategy(strategyId)
          /\ UNCHANGED observers
    \/ \E mock \in LineFeed : MonitoringCycle(mock, 5000) /\ UNCHANGED observers

SpecGridLines == Init /\ [][NextGridLines]_vars

\* The trading methods called by a user, on BTC-USD and on DOGE-USD, which
\* never has a snapshot, before and after initialize() and the first cycle.
\* The limit price is none of the prices of the feed.
GatewayPrices == {45000, 46000}
GatewayFeed ==
    {[p \in mockProducts |-> IF p = "BTC-USD" THEN x ELSE 50000] : x \in GatewayPrices}

NextGateway ==
    \/ initialize /\ UNCHANGED observers
    \/ on("tradeExecuted", "throw") /\ UNCHANGED observers
    \/ \E side \in {"buy", "sell"}, productId \in {"BTC-USD", "DOGE-USD"} :
          order(side, "market", productId, "0.001", null, 1)
    \/ \E side \in {"buy", "sell"}, productId \in {"BTC-USD", "DOGE-USD"} :
          order(side, "limit", productId, "0.001", "44000", 1)
    \/ \E mock \in GatewayFeed : MonitoringCycle(mock, 5000) /\ UNCHANGED observers

SpecGateway == Init /\ [][NextGateway]_vars

\* The strategy registry called by a user: a DCA strategy, which a cycle
\* changes (lastExecution), and a grid strategy, which none does; ids of
\* strategies that exist and of some that do not.
RegistryFeed == {[p \in mockProducts |-> 45000]}

NextRegistry ==
    \/ initialize /\ UNCHANGED observers
    \/ createDCAStrategy("BTC-USD", "0.001", 1) /\ created
    \/ createGridStrategy("ETH-USD", 44500, 45500, 10, "0.05") /\ created
    \/ \E strategyId \in 1..MaxStrategies :
          enableStrategy(strategyId) /\ toggled("enableStrategy", strategyId)
    \/ \E strategyId \in 1..MaxStrategies :
          disableStrategy(strategyId) /\ toggled("disableStrategy", strategyId)
    \/ \E mock \in RegistryFeed : MonitoringCycle(mock, 5000) /\ UNCHANGED observers

SpecRegistry == Init /\ [][NextRegistry]_vars

\* The scheduler: initialize() and close() called in any order, and the
\* timers firing, with alerts for the cycles to scan.
SchedulerPrices == {44000, 46000}
SchedulerFeed ==
    {[p \in mockProducts |-> IF p = "BTC-USD" THEN x ELSE 50000] :
        x \in SchedulerPrices}

NextScheduler ==
    \/ initialize /\ started
    \/ close
    \/ \E condition \in {"above", "below"} :
          createPriceAlert("BTC-USD", 45000, condition, "ok") /\ UNCHANGED observers
    \/ \E mock \in SchedulerFeed : MonitoringCycle(mock, 5000) /\ UNCHANGED observers

SpecScheduler == Init /\ [][NextScheduler]_vars

\* Alerts whose callbacks return or throw, on BTC-USD above and below
\* 45000, with a DCA strategy for the strategy scan of the cycle.
FailurePrices == {44000, 46000}
FailureFeed ==
    {[p \in mockProducts |-> IF p = "BTC-USD" THEN x ELSE 50000] :
        x \in FailurePrices}

NextFailures ==
    \/ initialize /\ UNCHANGED observers
    \/ \E condition \in {"above", "below"}, callback \in {"ok", "throw"} :
          createPriceAlert("BTC-USD", 45000, condition, callback) /\ UNCHANGED observers
    \/ createDCAStrategy("BTC-USD", "0.001", 1) /\ UNCHANGED observers
    \/ \E mock \in FailureFeed : MonitoringCycle(mock, 5000) /\ UNCHANGED observers

SpecFailures == Init /\ [][NextFailures]_vars

\* The event loop: one or two timers, whose callbacks run step by step,
\* on time or late, and a user's calls between them.
LoopFeed == {[p \in mockProducts |-> 46000]}

NextEventLoop ==
    \/ Idle /\ initialize /\ UNCHANGED observers
    \/ Idle /\ createPriceAlert("BTC-USD", 45000, "above", "ok")
          /\ UNCHANGED observers
    \/ Idle /\ createDCAStrategy("BTC-USD", "0.001", 1) /\ UNCHANGED observers
    \/ \E mock \in LoopFeed, elapsed \in Elapsed : timerFires(mock, elapsed)
    \/ \E k \in 1..MaxInit : resume(k)

SpecEventLoop == Init /\ [][NextEventLoop]_vars

\* Evaluators that fail: DCA and momentum strategies on BTC-USD and on
\* DOGE-USD, which never has a snapshot (NotFound), and a tradeExecuted
\* listener that throws inside executeTrade.
EvaluatorPrices == {40000, 44000}
EvaluatorFeed ==
    {[p \in mockProducts |-> IF p = "BTC-USD" THEN x ELSE 50000] :
        x \in EvaluatorPrices}

NextEvaluators ==
    \/ initialize /\ UNCHANGED observers
    \/ on("tradeExecuted", "throw") /\ UNCHANGED observers
    \/ \E productId \in {"BTC-USD", "DOGE-USD"} :
          createDCAStrategy(productId, "0.001", 1) /\ UNCHANGED observers
    \/ \E productId \in {"BTC-USD", "DOGE-USD"} :
          createMomentumStrategy(productId, 5, "1") /\ UNCHANGED observers
    \/ \E strategyId \in 1..MaxStrategies : disableStrategy(strategyId)
          /\ UNCHANGED observers
    \/ \E mock \in EvaluatorFeed : MonitoringCycle(mock, 5000) /\ UNCHANGED observers

SpecEvaluators == Init /\ [][NextEvaluators]_vars

\* The strategy scan over the four kinds of strategies, on BTC-USD and on
\* DOGE-USD, which never has a snapshot: a DCA strategy buys in its first
\* evaluation, a momentum strategy trades on the change between 40000 and
\* 44000, a mean-reversion strategy with a window of 2 and a threshold of 0
\* on every change of the price, and 40000 is the line of index 5 of the
\* grid between 39500 and 40500.  A tradeExecuted listener may throw inside
\* executeTrade.
KindPrices == {40000, 44000}
KindFeed ==
    {[p \in mockProducts |-> IF p = "BTC-USD" THEN x ELSE 50000] : x \in KindPrices}

NextKinds ==
    \/ initialize /\ UNCHANGED observers
    \/ on("tradeExecuted", "throw") /\ UNCHANGED observers
    \/ \E productId \in {"BTC-USD", "DOGE-USD"} :
          createDCAStrategy(productId, "0.001", 1) /\ UNCHANGED observers
    \/ \E productId \in {"BTC-USD", "DOGE-USD"} :
          createGridStrategy(productId, 39500, 40500, 10, "0.05")
          /\ UNCHANGED observers
    \/ \E productId \in {"BTC-USD", "DOGE-USD"} :
          createMomentumStrategy(productId, 5, "1") /\ UNCHANGED observers
    \/ \E productId \in {"BTC-USD", "DOGE-USD"} :
          createMeanReversionStrategy(productId, 2, 0, "0.5") /\ UNCHANGED observers
    \/ \E strategyId \in 1..MaxStrategies : enableStrategy(strategyId)
          /\ UNCHANGED observers
    \/ \E strategyId \in 1..MaxStrategies : disableStrategy(strategyId)
          /\ UNCHANGED observers
    \/ \E mock \in KindFeed : MonitoringCycle(mock, 5000) /\ UNCHANGED observers

SpecKinds == Init /\ [][NextKinds]_vars

\* The callbacks that submit a trade: alerts on ETH-USD around 45000 whose
\* callback is the one of main(), a DCA strategy for the strategy scan, and
\* a tradeExecuted listener that may throw inside the submission.
CallbackPrices == {44000, 46000}
CallbackFeed ==
    {[p \in mockProducts |-> IF p = "ETH-USD" THEN x ELSE 50000] :
        x \in CallbackPrices}

NextCallbacks ==
    \/ Idle /\ initialize /\ UNCHANGED observers
    \/ Idle /\ on("tradeExecuted", "throw") /\ UNCHANGED observers
    \/ \E condition \in {"above", "below"} :
          Idle /\ createPriceAlert("ETH-USD", 45000, condition, "trade")
               /\ UNCHANGED observers
    \/ Idle /\ createDCAStrategy("BTC-USD", "0.001", 1) /\ UNCHANGED observers
    \/ \E mock \in CallbackFeed : timerFires(mock, 5000)
    \/ \E k \in 1..MaxInit : resume(k)
    \/ settle

SpecCallbacks == Init /\ [][NextCallbacks]_vars

\* The market data store read by a user, for a product the refresh writes
\* and for one it never does, before and after the first cycle.
StorePrices == {45000, 46000}
StoreFeed ==
    {[p \in mockProducts |-> IF p = "BTC-USD" THEN x ELSE 50000] : x \in StorePrices}

NextStore ==
    \/ initialize /\ UNCHANGED observers
    \/ \E productId \in {"BTC-USD", "DOGE-USD"} : query("getMarketData", productId)
    \/ \E productId \in {"BTC-USD", "DOGE-USD"} : query("getCurrentPrice", productId)
    \/ \E mock \in StoreFeed : MonitoringCycle(mock, 5000) /\ UNCHANGED observers

SpecStore == Init /\ [][NextStore]_vars

\* Alerts removed by a user, before and after the cycles in which their
\* condition holds; ids of alerts that exist and of some that do not.
RemovalPrices == {44000, 46000}
RemovalFeed ==
    {[p \in mockProducts |-> IF p = "BTC-USD" THEN x ELSE 50000] :
        x \in RemovalPrices}

NextRemoval ==
    \/ initialize /\ UNCHANGED observers
    \/ \E condition \in {"above", "below"} :
          createPriceAlert("BTC-USD", 45000, condition, "ok") /\ UNCHANGED observers
    \/ \E alertId \in 1..(MaxAlerts + 1) :
          removePriceAlert(alertId) /\ removed(alertId)
    \/ \E mock \in RemovalFeed : MonitoringCycle(mock, 5000) /\ UNCHANGED observers

SpecRemoval == Init /\ [][NextRemoval]_vars

\* The steps of the cycles, with prices that differ from one cycle to the
\* next, an alert for the alert scan and a DCA and a momentum strategy for
\* the strategy scan.
StepPrices == {44000, 46000}
StepFeed ==
    {[p \in mockProducts |-> IF p = "BTC-USD" THEN x ELSE 50000] : x \in StepPrices}

NextSteps ==
    \/ Idle /\ initialize /\ UNCHANGED observers
    \/ \E condition \in {"above", "below"} :
          Idle /\ createPriceAlert("BTC-USD", 45000, condition, "ok")
               /\ UNCHANGED observers
    \/ Idle /\ createDCAStrategy("BTC-USD", "0.001", 1) /\ UNCHANGED observers
    \/ Idle /\ createMomentumStrategy("BTC-USD", 1, "1") /\ UNCHANGED observers
    \/ \E mock \in StepFeed : timerFires(mock, 5000)
    \/ \E k \in 1..MaxInit : resume(k)

SpecSteps == Init /\ [][NextSteps]_vars

\* The order history written by a user's orders, market and limit, that
\* return or fail (DOGE-USD has no snapshot; a listener throws), and by the
\* trades of a DCA strategy.
HistoryFeed == {[p \in mockProducts |-> 45000]}

NextHistory ==
    \/ initialize /\ UNCHANGED observers
    \/ on("tradeExecuted", "throw") /\ UNCHANGED observers
    \/ \E orderType \in {"market", "limit"}, productId \in {"BTC-USD", "DOGE-USD"} :
          order("sell", orderType, productId, "0.001",
                IF orderType = "limit" THEN "44000" ELSE null, 1)
    \/ createDCAStrategy("BTC-USD", "0.001", 1) /\ UNCHANGED observers
    \/ \E mock \in HistoryFeed : MonitoringCycle(mock, 5000) /\ UNCHANGED observers

SpecHistory == Init /\ [][NextHistory]_vars

\* Alerts created with a target price of 45000 and of 0, which no price of
\* the feed is below.
TargetPrices == {44000, 46000}
TargetFeed ==
    {[p \in mockProducts |-> IF p = "BTC-USD" THEN x ELSE 50000] : x \in TargetPrices}

NextTargets ==
    \/ initialize /\ UNCHANGED observers
    \/ \E targetPrice \in {0, 45000}, condition \in {"above", "below"} :
          createPriceAlert("BTC-USD", targetPrice, condition, "ok")
          /\ UNCHANGED observers
    \/ \E mock \in TargetFeed : MonitoringCycle(mock, 5000) /\ UNCHANGED observers

SpecTargets == Init /\ [][NextTargets]_vars

\* Momentum strategies on BTC-USD with a threshold of 5 (percent) and of 0:
\* from 40000 to 42000 is +5%, from 42000 to 40000 less than -5%, and a
\* price can stay as it was.
MomentumPrices == {40000, 42000}
MomentumFeed ==
    {[p \in mockProducts |-> IF p = "BTC-USD" THEN x ELSE 50000] :
        x \in MomentumPrices}

NextMomentum ==
    \/ initialize /\ UNCHANGED observers
    \/ \E threshold \in {0, 5} :
          createMomentumStrategy("BTC-USD", threshold, "1") /\ UNCHANGED observers
    \/ \E strategyId \in 1..MaxStrategies : disableStrategy(strategyId)
          /\ UNCHANGED observers
    \/ \E mock \in MomentumFeed : MonitoringCycle(mock, 5000) /\ UNCHANGED observers

SpecMomentum == Init /\ [][NextMomentum]_vars

\* ------------------------------------------------------ claims: alerts
\* The priceAlert events of log for alert id, and the callback calls.
AlertEvents(log, id) ==
    {k \in 1..Len(log) : log[k].event = "priceAlert" /\ log[k].payload.alertId = id}
AlertCalls(log, id) == {k \in 1..Len(log) : log[k].alertId = id}

\* C1: once the active flag of an alert is false it is never true again,
\* over creations, removals and monitoring cycles.
C1_InactiveStaysInactive ==
    [][\A i \in 1..Len(priceAlerts), j \in 1..Len(priceAlerts') :
          (priceAlerts[i].id = priceAlerts'[j].id /\ ~priceAlerts[i].active)
              => ~priceAlerts'[j].active]_vars

\* An alert that triggered in an earlier cycle is inactive after a later
\* cycle whose price meets its condition again.
C1_Witness ==
    \E i \in 1..Len(priceAlerts) :
        LET a == priceAlerts[i] IN
        /\ ~a.active
        /\ a.productId \in DOMAIN marketData
        /\ triggered(a, marketData[a.productId])
        /\ \E k \in AlertEvents(emitted, a.id) :
              emitted[k].payload.currentPrice # marketData[a.productId]

\* C2: the priceAlert event is emitted at most once for an alert and its
\* callback is invoked at most once, whatever the callback does.
C2_TriggersAtMostOnce ==
    \A id \in 1..nextAlert :
        /\ Cardinality(AlertEvents(emitted, id)) <= 1
        /\ Cardinality(AlertCalls(called, id)) <= 1

\* C3: in a cycle, an ABOVE alert whose product has a snapshot emits exactly
\* one event, carrying the snapshot price, if the price is at or above the
\* target for the first time, and none otherwise.
C3_AboveAlertScenario ==
    [][cycles' = cycles + 1 =>
        \A i \in 1..Len(priceAlerts) :
            LET a == priceAlerts[i]
                old == AlertEvents(emitted, a.id)
                new == AlertEvents(emitted', a.id) \ old
            IN  (a.condition = "above" /\ a.productId \in DOMAIN marketData') =>
                    IF old = {} /\ marketData'[a.productId] >= a.targetPrice
                    THEN /\ Cardinality(new) = 1
                         /\ \A k \in new :
                               emitted'[k].payload.currentPrice = marketData'[a.productId]
                    ELSE new = {}]_vars

\* The alert at index j threw in the cycle step: it emitted its event and
\* kept its flag.
AlertThrew(j) ==
    /\ priceAlerts'[j].active
    /\ AlertEvents(emitted', priceAlerts[j].id) # AlertEvents(emitted, priceAlerts[j].id)

\* C4: an active alert with a snapshot, evaluated in a cycle, triggers if and
\* only if it is ABOVE and price >= target or BELOW and price <= target.
C4_TriggerCondition ==
    [][cycles' = cycles + 1 =>
        \A i \in 1..Len(priceAlerts) :
            LET a == priceAlerts[i]
                price == marketData'[a.productId]
                new == AlertEvents(emitted', a.id) \ AlertEvents(emitted, a.id)
            IN  (/\ a.active
                 /\ a.productId \in DOMAIN marketData'
                 /\ \A j \in 1..(i - 1) : ~AlertThrew(j)) =>
                    /\ Cardinality(new) <= 1
                    /\ new # {} <=>
                          \/ (a.condition = "above" /\ price >= a.targetPrice)
                          \/ (a.condition = "below" /\ price <= a.targetPrice)]_vars

\* An alert has triggered at a price equal to its target, and another
\* evaluated alert has not triggered.
C4_Witness ==
    /\ \E k \in 1..Len(emitted) :
          /\ emitted[k].event = "priceAlert"
          /\ emitted[k].payload.currentPrice = emitted[k].payload.targetPrice
    /\ \E i \in 1..Len(priceAlerts) :
          /\ priceAlerts[i].active
          /\ priceAlerts[i].productId \in DOMAIN marketData
          /\ AlertEvents(emitted, priceAlerts[i].id) = {}

\* -------------------------------------------- claims: DCA and momentum
\* The strategy with the given id (strategies are never removed).
StrategyOf(id) == strategies[IndexOf(strategies, id)]

\* The records of orderHistory a strategy of the given type submitted.
TradesOfType(type) ==
    {k \in 1..Len(orderHistory) :
        origin[k] # 0 /\ StrategyOf(origin[k]).type = type}

\* C5: two consecutive market buys of one DCA strategy are at least
\* intervalMinutes apart.
C5_DCAFiresAreSpaced ==
    \A k \in TradesOfType("dca"), l \in TradesOfType("dca") :
        (/\ k < l
         /\ origin[k] = origin[l]
         /\ \A j \in (k + 1)..(l - 1) : origin[j] # origin[k]) =>
            orderHistory[l].timestamp - orderHistory[k].timestamp
                >= StrategyOf(origin[k]).parameters.intervalMinutes * 60000

\* C6: every trade a DCA strategy submitted is a market buy on the
\* strategy's product of the strategy's amountPerTrade.
C6_DCATradeShape ==
    \A k \in TradesOfType("dca") :
        /\ orderHistory[k].orderType = "market"
        /\ orderHistory[k].side = "buy"
        /\ orderHistory[k].productId = StrategyOf(origin[k]).productId
        /\ orderHistory[k].amount = StrategyOf(origin[k]).parameters.amountPerTrade

\* With no listener that throws, a DCA strategy has bought twice and a
\* momentum strategy has sold.
C6_Witness ==
    /\ listeners.tradeExecuted = "none"
    /\ \E k \in TradesOfType("dca"), l \in TradesOfType("dca") : k # l
    /\ \E k \in TradesOfType("momentum") : orderHistory[k].side = "sell"

\* C7: after the evaluation of a momentum strategy that read a price,
\* lastPrice is that price.
C7_MomentumLastPrice ==
    \A k \in 1..Len(evalLog) :
        (evalLog[k].type = "momentum" /\ Truthy(evalLog[k].price)) =>
            StrategyOf(evalLog[k].id).parameters.lastPrice = evalLog[k].price

\* ------------------------------------------------ claims: mean reversion
\* The evaluations of the last cycle in which a mean-reversion strategy
\* read a price and had a full window after the push.
FullWindowEvaluations ==
    {k \in 1..Len(evalLog) :
        /\ evalLog[k].type = "mean_reversion"
        /\ Truthy(evalLog[k].price)
        /\ Len(StrategyOf(evalLog[k].id).parameters.priceHistory)
              = StrategyOf(evalLog[k].id).parameters.lookbackPeriod}

Window(k) == StrategyOf(evalLog[k].id).parameters.priceHistory

AllEqual(h) == \A x \in Range(h), y \in Range(h) : x = y

\* C8: an evaluation with a full window of equal prices submits no trade
\* and raises no failure.
C8_ZeroDeviationNoSignal ==
    \A k \in FullWindowEvaluations :
        AllEqual(Window(k)) => evalLog[k].trades = << >> /\ evalLog[k].err = ""

\* A window of three equal prices has been evaluated.
C8_Witness ==
    \E k \in FullWindowEvaluations : AllEqual(Window(k)) /\ Len(Window(k)) = 3

\* With n the length of window h and x its last price: Deviation is
\* n * (x - mean), and Spread is n^3 * variance, from the identity
\* n^2 * variance = the sum over the pairs of prices of their squared
\* difference.
Deviation(h) == Len(h) * h[Len(h)] - Sum(h)
RECURSIVE SquaredDifferences(_, _)
SquaredDifferences(x, h) ==
    IF h = << >> THEN 0
    ELSE (x - Head(h)) * (x - Head(h)) + SquaredDifferences(x, Tail(h))
RECURSIVE PairSquares(_)
PairSquares(h) ==
    IF h = << >> THEN 0
    ELSE SquaredDifferences(Head(h), Tail(h)) + PairSquares(Tail(h))
Spread(h) == Len(h) * PairSquares(h)

\* zScore >= c and zScore <= -c for a window that is not constant and a
\* threshold c >= 0:  zScore^2 = n * Deviation^2 / Spread.
ZAtLeast(h, c) ==
    Deviation(h) >= 0 /\ Len(h) * Deviation(h) * Deviation(h) >= c * c * Spread(h)
ZAtMostMinus(h, c) ==
    Deviation(h) <= 0 /\ Len(h) * Deviation(h) * Deviation(h) >= c * c * Spread(h)
ZIs(h, c) == Len(h) * Deviation(h) * Deviation(h) = c * c * Spread(h)

\* The evaluation k submitted exactly one trade, a market order of the
\* strategy's tradeAmount on its product, on the given side.
SubmittedOne(k, side) ==
    /\ Len(evalLog[k].trades) = 1
    /\ evalLog[k].trades[1].orderType = "market"
    /\ evalLog[k].trades[1].side = side
    /\ evalLog[k].trades[1].amount = StrategyOf(evalLog[k].id).parameters.tradeAmount
    /\ evalLog[k].trades[1].productId = StrategyOf(evalLog[k].id).productId

\* C9: with a full window that is not constant, a market sell of tradeAmount
\* when zScore >= threshold, a market buy when zScore <= -threshold, no trade
\* otherwise.
C9_InclusiveThreshold ==
    \A k \in FullWindowEvaluations :
        LET c == StrategyOf(evalLog[k].id).parameters.stdDevThreshold IN
        ~AllEqual(Window(k)) =>
            IF ZAtLeast(Window(k), c) THEN SubmittedOne(k, "sell")
            ELSE IF ZAtMostMinus(Window(k), c) THEN SubmittedOne(k, "buy")
            ELSE evalLog[k].trades = << >>

\* C9, amended: a market sell of tradeAmount when zScore > threshold, a market
\* buy when zScore < -threshold, no trade otherwise.
C9_StrictThreshold ==
    \A k \in FullWindowEvaluations :
        LET c == StrategyOf(evalLog[k].id).parameters.stdDevThreshold IN
        ~AllEqual(Window(k)) =>
            IF ZAtLeast(Window(k), c) /\ ~ZIs(Window(k), c)
            THEN SubmittedOne(k, "sell")
            ELSE IF ZAtMostMinus(Window(k), c) /\ ~ZIs(Window(k), c)
            THEN SubmittedOne(k, "buy")
            ELSE evalLog[k].trades = << >>

\* In one cycle an evaluation whose z-score is the threshold exactly
\* submitted nothing and another, above the threshold, sold.
C9_Witness ==
    \E k \in FullWindowEvaluations, j \in FullWindowEvaluations :
        /\ ~AllEqual(Window(k))
        /\ ZIs(Window(k), StrategyOf(evalLog[k].id).parameters.stdDevThreshold)
        /\ evalLog[k].trades = << >>
        /\ SubmittedOne(j, "sell")

\* ---------------------------------------------------------- claims: grid
\* C10: a grid line is signalled as hit in the first of consecutive cycles
\* in which the price is within tolerance of it, and not in the later ones.
C10_GridHitOncePerEntry == \A x \in hit : x \notin prevHit

\* ------------------------------------------------------- claims: gateway
\* The step is a call of a trading method by a user, and the call.
Ordered ==
    /\ Len(trail') = Len(trail) + 1
    /\ trail'[Len(trail')].op = "executeTrade"
TheOrder == trail'[Len(trail')]

\* The record the call returned has the side, orderType, amount and
\* instrument of the request.
AsRequested(c) ==
    /\ c.value.side = c.args.side
    /\ c.value.orderType = c.args.orderType
    /\ c.value.amount = c.args.amount
    /\ c.value.productId = c.args.productId

\* C11: a market order on an instrument that has a snapshot, with an account
\* present, returns a record with the store's price of the instrument as
\* executedPrice and the side, orderType, amount and instrument of the
\* request, and the record is the last of the order history.
C11_MarketOrderReturnsRecord ==
    [][(/\ Ordered
        /\ TheOrder.args.orderType = "market"
        /\ Truthy(account)
        /\ ~getCurrentPriceThrows(marketData, TheOrder.args.productId))
       => /\ TheOrder.err = ""
          /\ TheOrder.value.executedPrice
                = getMarketData(marketData, TheOrder.args.productId)
          /\ AsRequested(TheOrder)
          /\ orderHistory' # << >>
          /\ orderHistory'[Len(orderHistory')] = TheOrder.value]_vars

\* The number a price string denotes.
parseFloat(limitPrice) == CASE limitPrice = "44000" -> 44000

\* C12: a limit order returns a record whose executedPrice is the limitPrice
\* of the request, whatever the store's price of the instrument and whether
\* or not the instrument has a snapshot.
C12_LimitOrderExecutesAtLimit ==
    [][(/\ Ordered
        /\ TheOrder.args.orderType = "limit"
        /\ Truthy(account))
       => /\ TheOrder.err = ""
          /\ TheOrder.value.executedPrice = parseFloat(TheOrder.args.limitPrice)]_vars

\* C13: a call made while there is no account fails with NotInitialized,
\* appends nothing to the order history and emits no event.
C13_NotInitialized ==
    [][(Ordered /\ ~Truthy(account))
       => /\ TheOrder.err = "NotInitialized"
          /\ orderHistory' = orderHistory
          /\ emitted' = emitted]_vars

\* Calls failed with NotInitialized, market and limit, and a later call
\* returned a record.
C13_Witness ==
    \E i \in 1..Len(trail), j \in 1..Len(trail), k \in 1..Len(trail) :
        /\ i < j /\ j < k
        /\ trail[i].op = "executeTrade" /\ trail[i].err = "NotInitialized"
        /\ trail[i].args.orderType = "market"
        /\ trail[j].op = "executeTrade" /\ trail[j].err = "NotInitialized"
        /\ trail[j].args.orderType = "limit"
        /\ trail[k].op = "executeTrade" /\ trail[k].err = ""

\* C14: a market order on an instrument with no snapshot fails with NotFound,
\* leaves the order history as it is and emits no event.
C14_MarketOrderNotFound ==
    [][(/\ Ordered
        /\ TheOrder.args.orderType = "market"
        /\ getCurrentPriceThrows(marketData, TheOrder.args.productId))
       => /\ TheOrder.err = "NotFound"
          /\ orderHistory' = orderHistory
          /\ emitted' = emitted]_vars

\* C14, amended: with an account present, such an order fails with NotFound,
\* and with or without one the order history is left as it is and no event
\* is emitted.
C14_MarketOrderNotFoundWithAccount ==
    [][(/\ Ordered
        /\ TheOrder.args.orderType = "market"
        /\ getCurrentPriceThrows(marketData, TheOrder.args.productId))
       => /\ Truthy(account) => TheOrder.err = "NotFound"
          /\ TheOrder.err # ""
          /\ orderHistory' = orderHistory
          /\ emitted' = emitted]_vars

\* A market order failed with NotFound on DOGE-USD, which never has a
\* snapshot, after a call that returned a record: there was an account and
\* the order history had a record.
C14_Witness ==
    \E i \in 1..Len(trail), j \in 1..Len(trail) :
        /\ trail[i].op = "executeTrade" /\ trail[i].err = "NotFound"
        /\ trail[i].args.orderType = "market"
        /\ trail[i].args.productId = "DOGE-USD"
        /\ trail[j].op = "executeTrade" /\ trail[j].err = ""
        /\ j < i

\* ------------------------------------------------------ claims: registry
\* Calls i, i + 1 and i + 2 of trail are a creation, disableStrategy of the
\* id it returned and enableStrategy of that id, with no monitoring cycle
\* between the first and the last.
RoundTrip(i) ==
    /\ i + 2 <= Len(trail)
    /\ trail[i].op = "createStrategy"
    /\ trail[i + 1].op = "disableStrategy" /\ trail[i + 1].args = trail[i].value
    /\ trail[i + 2].op = "enableStrategy" /\ trail[i + 2].args = trail[i].value
    /\ trail[i + 2].at = trail[i].at

\* C15: after create, disable(id), enable(id), listStrategies() has the
\* strategy with enabled = true and the id and parameters of its creation,
\* and the other strategies as they were listed after the creation.
C15_DisableEnableRoundTrip ==
    \A i \in 1..Len(trail) :
        RoundTrip(i) =>
            LET before == trail[i].listed
                after == trail[i + 2].listed
                n == IndexOf(after, trail[i].value)
            IN  /\ Len(after) = Len(before)
                /\ n # 0 /\ n = IndexOf(before, trail[i].value)
                /\ after[n].enabled = TRUE
                /\ after[n].id = before[n].id
                /\ after[n].parameters = before[n].parameters
                /\ \A k \in 1..Len(after) : k # n => after[k] = before[k]

\* A round trip of the second strategy, the first being disabled, after a
\* monitoring cycle in which the DCA strategy had bought.
C15_Witness ==
    \E i \in 1..Len(trail) :
        /\ RoundTrip(i)
        /\ trail[i].value = 2
        /\ ~trail[i].listed[1].enabled
        /\ orderHistory # << >>
        /\ strategies = trail[i + 2].listed

\* The step is a call of enableStrategy or disableStrategy, and the call.
Toggled ==
    /\ Len(trail') = Len(trail) + 1
    /\ trail'[Len(trail')].op \in {"enableStrategy", "disableStrategy"}
TheToggle == trail'[Len(trail')]

\* C16: enable(id) and disable(id) return false and change nothing when no
\* strategy has the id; they return true when one has, and change nothing
\* when its flag is already the one asked for (the second of two calls).
C16_ToggleReturnsAndIdempotent ==
    [][Toggled =>
        LET n == IndexOf(strategies, TheToggle.args) IN
        /\ UNCHANGED <<priceAlerts, orderHistory, emitted, marketData, account>>
        /\ IF n = 0
           THEN TheToggle.value = FALSE /\ strategies' = strategies
           ELSE /\ TheToggle.value = TRUE
                /\ strategies[n].enabled = (TheToggle.op = "enableStrategy")
                      => strategies' = strategies
                /\ strategies'[n].enabled = (TheToggle.op = "enableStrategy")]_vars

\* disableStrategy of an absent id returned false, and two calls of
\* disableStrategy of a strategy, one after the other, returned true.
C16_Witness ==
    \E i \in 1..Len(trail), j \in 1..Len(trail) :
        /\ trail[i].op = "disableStrategy" /\ trail[i].value = FALSE
        /\ j + 1 <= Len(trail)
        /\ trail[j].op = "disableStrategy" /\ trail[j].value = TRUE
        /\ trail[j + 1].op = "disableStrategy" /\ trail[j + 1].value = TRUE
        /\ trail[j + 1].args = trail[j].args

\* ----------------------------------------------------- claims: scheduler
\* C17: at most one timer is active, however many times initialize() is
\* called, so that a period of the interval starts at most one cycle.
C17_AtMostOneTimer == Cardinality(timers) <= 1

\* C18: once close() has returned, and until initialize() is called again,
\* no monitoring cycle starts.
C18_NoCycleAfterClose == [][closed => cycles' = cycles]_vars

\* ------------------------------------------- claims: failures in a cycle
\* The step is a monitoring cycle in which the callback of an alert threw.
CallbackThrew ==
    /\ cycles' = cycles + 1
    /\ \E k \in (Len(called) + 1)..Len(called') :
          priceAlerts[IndexOf(priceAlerts, called'[k].alertId)].callback = "throw"

\* C20: in a cycle in which the callback of an alert throws, every other
\* alert is still evaluated (one whose condition holds emits its event),
\* every enabled strategy is evaluated, and the scheduler goes on: the
\* process lives and the timers stay.
C20_CallbackFailureIsContained ==
    [][CallbackThrew =>
        /\ \A i \in 1..Len(priceAlerts) :
              (/\ priceAlerts[i].active
               /\ priceAlerts[i].productId \in DOMAIN marketData'
               /\ triggered(priceAlerts[i], marketData'[priceAlerts[i].productId]))
                  => AlertEvents(emitted', priceAlerts[i].id)
                        # AlertEvents(emitted, priceAlerts[i].id)
        /\ \A j \in 1..Len(strategies) :
              strategies[j].enabled
                  => \E k \in 1..Len(evalLog') : evalLog'[k].id = strategies[j].id
        /\ alive'
        /\ timers' = timers]_vars

\* ---------------------------------------------------- claims: event loop
\* C19: a monitoring cycle starts only when no earlier one is in progress:
\* every step of the earlier ones has completed, the timer being late or not.
C19_CyclesDoNotOverlap ==
    [][cycles' = cycles + 1 => running = << >> /\ Len(running') = 1]_vars

\* Two timers are set, the second cycle started 55 s after the first, and
\* its callback is in progress, about to run the strategies.
C19_Witness ==
    /\ Cardinality(timers) = 2
    /\ cycles = 2
    /\ now > 55000
    /\ running = <<"checkPriceAlerts">>
    /\ orderHistory # << >>

\* ---------------------------------------- claims: failures of evaluators
\* The ids of the enabled strategies of map, in insertion order.
RECURSIVE EnabledIds(_)
EnabledIds(map) ==
    IF map = << >> THEN << >>
    ELSE IF Head(map).enabled THEN <<Head(map).id>> \o EnabledIds(Tail(map))
    ELSE EnabledIds(Tail(map))

\* C21: in a cycle in which the evaluator of a strategy fails, every enabled
\* strategy is evaluated, in insertion order, those after the failing one
\* too, and the scheduler goes on: the process lives and the timers stay.
C21_EvaluatorFailureIsContained ==
    [][(/\ cycles' = cycles + 1
        /\ \E k \in 1..Len(evalLog') : evalLog'[k].err # "")
       => /\ [k \in 1..Len(evalLog') |-> evalLog'[k].id] = EnabledIds(strategies)
          /\ alive' /\ timers' = timers]_vars

\* In the second cycle the evaluator of the first strategy failed with
\* NotFound and the second, a momentum strategy evaluated after it, traded.
C21_Witness ==
    /\ cycles = 2
    /\ Len(evalLog) = 2
    /\ evalLog[1].err = "NotFound"
    /\ evalLog[2].type = "momentum"
    /\ evalLog[2].err = "" /\ evalLog[2].trades # << >>

\* --------------------------------------------- claims: market data store
\* The step is a call of getMarketData or getCurrentPrice, and the call.
Queried ==
    /\ Len(trail') = Len(trail) + 1
    /\ trail'[Len(trail')].op \in {"getMarketData", "getCurrentPrice"}
TheQuery == trail'[Len(trail')]

\* C22: getMarketData never throws and returns null exactly when the
\* product has no snapshot (the snapshot otherwise); getCurrentPrice returns
\* the price of the snapshot when there is one and fails with NotFound
\* exactly when there is none.
C22_StoreReads ==
    [][Queried =>
        LET has == TheQuery.args \in DOMAIN marketData IN
        IF TheQuery.op = "getMarketData"
        THEN /\ TheQuery.err = ""
             /\ TheQuery.value = null <=> ~has
             /\ has => TheQuery.value = marketData[TheQuery.args]
        ELSE /\ TheQuery.err = "NotFound" <=> ~has
             /\ TheQuery.err # "" => ~has
             /\ has => TheQuery.value = marketData[TheQuery.args]]_vars

\* After a cycle, getCurrentPrice gave the price of BTC-USD and failed with
\* NotFound for DOGE-USD, for which getMarketData gave null.
C22_Witness ==
    \E i \in 1..Len(trail), j \in 1..Len(trail), k \in 1..Len(trail) :
        /\ trail[i].op = "getCurrentPrice" /\ trail[i].args = "BTC-USD"
        /\ trail[i].err = "" /\ trail[i].value = marketData["BTC-USD"]
        /\ trail[j].op = "getCurrentPrice" /\ trail[j].args = "DOGE-USD"
        /\ trail[j].err = "NotFound" /\ trail[j].at = trail[i].at
        /\ trail[k].op = "getMarketData" /\ trail[k].args = "DOGE-USD"
        /\ trail[k].err = "" /\ trail[k].value = null

\* ------------------------------------------------ claims: alert removal
\* The step is a call of removePriceAlert, and the call.
Removed ==
    /\ Len(trail') = Len(trail) + 1
    /\ trail'[Len(trail')].op = "removePriceAlert"
TheRemoval == trail'[Len(trail')]

\* The alerts of map other than the one with the given id, in their order.
Others(map, id) == SelectSeq(map, LAMBDA a : a.id # id)

\* C23: removePriceAlert returns false and changes nothing when no alert has
\* the id; when one has, it returns true and listPriceAlerts() has the other
\* alerts, unchanged and in their order, and not that one; and no step adds
\* an event or a callback call for an alert that was created and is no
\* longer registered.
C23_RemoveAlert ==
    [][/\ Removed =>
            /\ UNCHANGED <<strategies, orderHistory, emitted, called, marketData>>
            /\ IF IndexOf(priceAlerts, TheRemoval.args) = 0
               THEN /\ TheRemoval.value = FALSE
                    /\ priceAlerts' = priceAlerts
                    /\ TheRemoval.listed = priceAlerts
               ELSE /\ TheRemoval.value = TRUE
                    /\ IndexOf(TheRemoval.listed, TheRemoval.args) = 0
                    /\ TheRemoval.listed = Others(priceAlerts, TheRemoval.args)
                    /\ priceAlerts' = TheRemoval.listed
       /\ \A id \in 1..nextAlert :
            IndexOf(priceAlerts, id) = 0
                => /\ AlertEvents(emitted', id) = AlertEvents(emitted, id)
                   /\ AlertCalls(called', id) = AlertCalls(called, id)]_vars

\* Two alerts with the same condition were registered and active; the first
\* was removed, and in a later cycle the second triggered and the first
\* gave no event and no callback call.  A call for an absent id gave false.
C23_Witness ==
    \E i \in 1..Len(trail), j \in 1..Len(trail) :
        /\ trail[i].op = "removePriceAlert" /\ trail[i].value = FALSE
        /\ Len(trail[i].listed) = 2
        /\ trail[i].listed[1].active /\ trail[i].listed[2].active
        /\ trail[i].listed[1].condition = trail[i].listed[2].condition
        /\ trail[j].op = "removePriceAlert" /\ trail[j].value = TRUE
        /\ trail[j].args = 1 /\ i < j
        /\ trail[j].at < cycles
        /\ AlertEvents(emitted, 1) = {} /\ AlertCalls(called, 1) = {}
        /\ AlertEvents(emitted, 2) # {} /\ AlertCalls(called, 2) # {}

\* ------------------------------------------- claims: alerts of one scan
\* The alerts that are active and whose condition holds against the
\* snapshots md, as indices of priceAlerts.
Due(md) ==
    {i \in 1..Len(priceAlerts) :
        /\ priceAlerts[i].active
        /\ priceAlerts[i].productId \in DOMAIN md
        /\ triggered(priceAlerts[i], md[priceAlerts[i].productId])}

\* The alertIds of the priceAlert events of log from index k on.
RECURSIVE FiredFrom(_, _)
FiredFrom(log, k) ==
    IF k > Len(log) THEN << >>
    ELSE IF log[k].event = "priceAlert"
         THEN <<log[k].payload.alertId>> \o FiredFrom(log, k + 1)
         ELSE FiredFrom(log, k + 1)

\* C24: in a cycle, every active alert whose condition holds against the
\* refreshed snapshot emits its event in that cycle, the events being in
\* the insertion order of the alerts, several alerts of one product
\* included.
C24_AllDueAlertsFire ==
    [][cycles' = cycles + 1 =>
        LET fired == FiredFrom(emitted', Len(emitted) + 1) IN
        /\ \A i \in Due(marketData') :
              \E k \in 1..Len(fired) : fired[k] = priceAlerts[i].id
        /\ \A k \in 1..Len(fired), l \in 1..Len(fired) :
              k < l => IndexOf(priceAlerts, fired[k]) < IndexOf(priceAlerts, fired[l])]_vars

\* ------------------------------------------- claims: steps of a cycle
\* The step is one of the callback k of running: it went on to its next
\* call, or ended.
Stepped(k) ==
    \/ running' = Without(running, k)
    \/ Len(running') = Len(running) /\ running'[k] # running[k]

\* The prices the step read: those of the priceAlert events it emitted, of
\* the trades it pushed and of the evaluations it logged, each with its
\* product.
AlertReads ==
    {[productId |-> emitted'[j].payload.productId,
      price |-> emitted'[j].payload.currentPrice] :
        j \in {i \in (Len(emitted) + 1)..Len(emitted') :
                  emitted'[i].event = "priceAlert"}}
StrategyReads ==
    {[productId |-> orderHistory'[j].productId,
      price |-> orderHistory'[j].executedPrice] :
        j \in (Len(orderHistory) + 1)..Len(orderHistory')}
    \cup {[productId |-> strategies[IndexOf(strategies, evalLog'[j].id)].productId,
           price |-> evalLog'[j].price] :
             j \in {i \in 1..Len(evalLog') : Truthy(evalLog'[i].price)}}

\* C25: a cycle starts with its refresh, alone; the alert scan comes next
\* and the strategy scan after it, and every price either reads is the one
\* the refresh of that cycle wrote for the product.
C25_StepsSeeTheirRefresh ==
    [][/\ cycles' = cycles + 1 =>
            /\ refreshed'[Len(refreshed')] = marketData'
            /\ running'[Len(running')] = "updateMarketData"
            /\ emitted' = emitted /\ orderHistory' = orderHistory
            /\ evalLog' = evalLog
       /\ \A k \in 1..Len(running) :
            Stepped(k) =>
                /\ running[k] = "updateMarketData" =>
                      /\ orderHistory' = orderHistory
                      /\ \A x \in AlertReads : x.price = refreshed[k][x.productId]
                /\ running[k] = "checkPriceAlerts" =>
                      /\ AlertReads = {}
                      /\ \A x \in StrategyReads : x.price = refreshed[k][x.productId]
                /\ running[k] = "executeActiveStrategies" =>
                      /\ emitted' = emitted /\ orderHistory' = orderHistory
                      /\ evalLog' = evalLog]_vars

\* The strategy scan of the second cycle has run: its refresh wrote 46000
\* for BTC-USD, the first had written 44000; an alert triggered at 46000,
\* and a strategy traded at 44000 in the first cycle and at 46000 in this.
C25_Witness ==
    /\ cycles = 2
    /\ running = <<"executeActiveStrategies">>
    /\ refreshed[1] = marketData /\ marketData["BTC-USD"] = 46000
    /\ \E j \in 1..Len(emitted) :
          /\ emitted[j].event = "priceAlert"
          /\ emitted[j].payload.currentPrice = 46000
    /\ orderHistory # << >> /\ orderHistory[1].executedPrice = 44000
    /\ \E j \in 1..Len(evalLog) :
          /\ evalLog[j].trades # << >>
          /\ evalLog[j].trades[1].executedPrice = 46000

\* ------------------------------------------------ claims: order history
\* C26: the order history before a step is a prefix of the order history
\* after it: records are added at its end, and none is changed or removed.
C26_HistoryIsAppendOnly ==
    [][/\ Len(orderHistory') >= Len(orderHistory)
       /\ \A k \in 1..Len(orderHistory) : orderHistory'[k] = orderHistory[k]]_vars

\* The history has records of a user's market and limit orders and of a
\* strategy, one of them pushed before a listener threw, and a call failed
\* with NotFound after the first record.
C26_Witness ==
    /\ Len(orderHistory) >= 3
    /\ \E k \in 1..Len(orderHistory) : origin[k] # 0
    /\ \E k \in 1..Len(orderHistory) :
          origin[k] = 0 /\ orderHistory[k].orderType = "limit"
    /\ \E k \in 1..Len(orderHistory) :
          origin[k] = 0 /\ orderHistory[k].orderType = "market"
    /\ \E i \in 1..Len(trail) : trail[i].err = "ListenerError"
    /\ \E i \in 1..Len(trail) : trail[i].err = "NotFound" /\ i > 1

\* ------------------------------------------------ claims: target prices
\* C27: createPriceAlert registers an alert only for a positive target
\* price: every registered alert has one.
C27_TargetPriceIsPositive ==
    \A i \in 1..Len(priceAlerts) : priceAlerts[i].targetPrice > 0

\* ------------------------------------------- claims: order of a trigger
\* C28: an alert that triggers is marked inactive before its event is
\* emitted and its callback invoked: the callback is called with the alert
\* already inactive.
C28_InactiveWhenNotified ==
    \A k \in 1..Len(called) : ~called[k].active

\* --------------------------------------- claims: alerts with no snapshot
\* C29: in a cycle whose scan reaches an active alert of a product with no
\* snapshot (no alert before it threw), the alert stays as it is, active,
\* no event is emitted and no callback called for it, and the alerts after
\* it are evaluated: one that is active and whose condition holds emits its
\* event, unless an alert before that one threw.  The skip is no error: if
\* no alert threw, the process lives.
C29_NoSnapshotIsSkipped ==
    [][cycles' = cycles + 1 =>
        \A i \in 1..Len(priceAlerts) :
            (/\ priceAlerts[i].active
             /\ priceAlerts[i].productId \notin DOMAIN marketData'
             /\ \A j \in 1..(i - 1) : ~AlertThrew(j)) =>
                /\ priceAlerts'[i] = priceAlerts[i]
                /\ AlertEvents(emitted', priceAlerts[i].id)
                      = AlertEvents(emitted, priceAlerts[i].id)
                /\ AlertCalls(called', priceAlerts[i].id)
                      = AlertCalls(called, priceAlerts[i].id)
                /\ \A j \in (i + 1)..Len(priceAlerts) :
                      (/\ j \in Due(marketData')
                       /\ \A l \in 1..(j - 1) : ~AlertThrew(l))
                          => AlertEvents(emitted', priceAlerts[j].id)
                                # AlertEvents(emitted, priceAlerts[j].id)
                /\ (\A j \in 1..Len(priceAlerts) : ~AlertThrew(j)) => alive']_vars

\* After two cycles the first alert, on DOGE-USD, is active and has emitted
\* nothing, and the second, on BTC-USD, has triggered.
C29_Witness ==
    /\ cycles = 2
    /\ Len(priceAlerts) = 2
    /\ priceAlerts[1].productId = "DOGE-USD" /\ priceAlerts[1].active
    /\ priceAlerts[1].callback = "ok"
    /\ AlertEvents(emitted, priceAlerts[1].id) = {}
    /\ AlertCalls(called, priceAlerts[1].id) = {}
    /\ priceAlerts[2].productId = "BTC-USD" /\ ~priceAlerts[2].active
    /\ AlertEvents(emitted, priceAlerts[2].id) # {}

\* ------------------------------------------------ claims: DCA schedule
\* The trades the strategy with the given id pushed in the cycle step.
PushedBy(id) ==
    {k \in (Len(orderHistory) + 1)..Len(orderHistory') : origin'[k] = id}

\* C30: in a cycle, an enabled DCA strategy buys if it has no
\* lastExecution, or if the time of the evaluation is intervalMinutes or
\* more after lastExecution, and not otherwise; when it buys, lastExecution
\* becomes the time of the evaluation, and when it does not, lastExecution
\* stays.
C30_DCASchedule ==
    [][cycles' = cycles + 1 =>
        \A i \in 1..Len(strategies) :
            (strategies[i].type = "dca" /\ strategies[i].enabled) =>
                LET p == strategies[i].parameters
                    due == \/ ~Truthy(p.lastExecution)
                           \/ now' - p.lastExecution >= p.intervalMinutes * 60000
                    q == strategies'[i].parameters
                IN  IF due
                    THEN /\ Cardinality(PushedBy(strategies[i].id)) = 1
                         /\ q.lastExecution = now'
                    ELSE /\ PushedBy(strategies[i].id) = {}
                         /\ q.lastExecution = p.lastExecution]_vars

\* ---------------------------------------------- claims: momentum signal
\* The strategy at index i pushed exactly one trade in the cycle step, a
\* market order of the given amount on its product, on the given side.
PushedOne(i, side, amount) ==
    /\ Cardinality(PushedBy(strategies[i].id)) = 1
    /\ \A k \in PushedBy(strategies[i].id) :
          /\ orderHistory'[k].orderType = "market"
          /\ orderHistory'[k].side = side
          /\ orderHistory'[k].amount = amount
          /\ orderHistory'[k].productId = strategies[i].productId

\* C31: a momentum strategy submits no trade in its first evaluation (it
\* has no lastPrice); in a later one, with change = current - lastPrice (of
\* the sign of pctChange, lastPrice being positive), it buys tradeAmount
\* when |pctChange| >= threshold and change > 0, sells tradeAmount when
\* |pctChange| >= threshold and change < 0, and submits nothing otherwise.
C31_MomentumSignal ==
    [][cycles' = cycles + 1 =>
        \A i \in 1..Len(strategies) :
            (strategies[i].type = "momentum" /\ strategies[i].enabled) =>
                LET p == strategies[i].parameters
                    change == marketData'[strategies[i].productId] - p.lastPrice
                    large == Abs(change) * 100 >= p.threshold * p.lastPrice
                IN  IF ~Truthy(p.lastPrice) THEN PushedBy(strategies[i].id) = {}
                    ELSE IF large /\ change > 0
                         THEN PushedOne(i, "buy", p.tradeAmount)
                    ELSE IF large /\ change < 0
                         THEN PushedOne(i, "sell", p.tradeAmount)
                    ELSE PushedBy(strategies[i].id) = {}]_vars

\* ------------------------------------------ claims: mean-reversion window
Least(a, b) == IF a < b THEN a ELSE b

\* The last n entries of the sequence h.
Latest(h, n) == SubSeq(h, Len(h) - n + 1, Len(h))

\* C32: every evaluation of a mean-reversion strategy with a price adds
\* that price at the end of priceHistory and keeps the most recent
\* lookbackPeriod entries, in arrival order (after n evaluations: the most
\* recent min(n, lookbackPeriod) prices); it submits no trade while the
\* window holds fewer than lookbackPeriod prices.  No other step changes
\* priceHistory, which never holds more than lookbackPeriod prices.
C32_WindowIsTheLatestPrices ==
    [][\A i \in 1..Len(strategies) :
          strategies[i].type = "mean_reversion" =>
              LET id == strategies[i].id
                  p == strategies[i].parameters
                  q == strategies'[i].parameters
                  arrived == Append(p.priceHistory,
                                    marketData'[strategies[i].productId])
              IN  /\ Len(p.priceHistory) <= p.lookbackPeriod
                  /\ IF cycles' = cycles + 1 /\ strategies[i].enabled
                        /\ strategies[i].productId \in DOMAIN marketData'
                     THEN /\ q.priceHistory
                               = Latest(arrived, Least(Len(arrived), p.lookbackPeriod))
                          /\ Len(q.priceHistory) < p.lookbackPeriod
                               => PushedBy(id) = {}
                     ELSE q.priceHistory = p.priceHistory]_vars

\* A window of two prices that let its oldest price go: its strategy sold
\* on the second price, the first evaluation with a full window, and bought
\* on the third.
C32_Witness ==
    \E i \in 1..Len(strategies) :
        /\ strategies[i].type = "mean_reversion"
        /\ strategies[i].parameters.lookbackPeriod = 2
        /\ strategies[i].parameters.priceHistory = <<40002, 40000>>
        /\ cycles = 3
        /\ \E j, k \in 1..Len(orderHistory) :
              /\ j < k
              /\ origin[j] = strategies[i].id /\ orderHistory[j].side = "sell"
              /\ origin[k] = strategies[i].id /\ orderHistory[k].side = "buy"

\* ------------------------------------------------- claims: the grid lines
\* The indices of the lines lowerPrice + i * step of the partition of
\* [lowerPrice, upperPrice] into gridLevels steps, both end lines included.
Lines(p) == 0..p.gridLevels

\* Line i of the grid p lies within 0.1 * step of the price: with
\* w = upperPrice - lowerPrice and step = w / gridLevels,
\* |price - lowerPrice - i * w / gridLevels| < w / (10 * gridLevels).
Near(p, i, price) ==
    LET w == p.upperPrice - p.lowerPrice
    IN  10 * Abs((price - p.lowerPrice) * p.gridLevels - i * w) < w

\* C33: a cycle signals, for every enabled grid strategy, exactly the lines
\* of its partition, both end lines included, that lie within 0.1 * step of
\* the current price; between 44500 and 45500 with 10 levels and a price of
\* 45003 (lower=2000, upper=3000, price 2503) that is index 5 alone.
C33_GridSignalsItsLines ==
    [][cycles' = cycles + 1 =>
        hit' = {x \in [id : 1..MaxStrategies, level : 0..10] :
                  \E i \in 1..Len(strategies) :
                     /\ strategies[i].id = x.id
                     /\ strategies[i].type = "grid"
                     /\ strategies[i].enabled
                     /\ x.level \in Lines(strategies[i].parameters)
                     /\ Near(strategies[i].parameters, x.level,
                             marketData'[strategies[i].productId])}]_vars

\* ------------------------------------------------ claims: the strategy scan
\* The evaluations of the strategy id in the cycle step.
EvaluatedIn(id) == {k \in 1..Len(evalLog') : evalLog'[k].id = id}

\* C34: a strategy that is disabled when a cycle runs is not evaluated in
\* it: it submits no trade and the strategy, its parameters
\* (lastExecution, lastPrice, priceHistory) included, is left as it was; and
\* so in every cycle in which it is disabled.
C34_DisabledIsNotEvaluated ==
    [][cycles' = cycles + 1 =>
        \A i \in 1..Len(strategies) :
            ~strategies[i].enabled =>
                /\ EvaluatedIn(strategies[i].id) = {}
                /\ PushedBy(strategies[i].id) = {}
                /\ strategies'[i] = strategies[i]]_vars

\* A disabled momentum strategy that a cycle passed over: the cycle wrote
\* the price 44000 and evaluated another strategy, and lastPrice is still
\* the 40000 of an earlier cycle.
C34_Witness ==
    \E i \in 1..Len(strategies) :
        /\ strategies[i].type = "momentum"
        /\ ~strategies[i].enabled
        /\ strategies[i].productId = "BTC-USD"
        /\ strategies[i].parameters.lastPrice = 40000
        /\ marketData["BTC-USD"] = 44000
        /\ evalLog # << >>

\* C37: an enabled strategy, of any kind, whose product has no snapshot
\* when a cycle evaluates it fails with NotFound and without effect: it
\* submits no trade and the strategy, its parameters included, is left as
\* it was (lastExecution of a DCA strategy stays absent, priceHistory gains
\* no entry); and so in every cycle in which the product has no snapshot.
C37_NoSnapshotNoEffect ==
    [][cycles' = cycles + 1 =>
        \A i \in 1..Len(strategies) :
            (strategies[i].enabled /\ strategies[i].productId \notin DOMAIN marketData') =>
                /\ Cardinality(EvaluatedIn(strategies[i].id)) = 1
                /\ \A k \in EvaluatedIn(strategies[i].id) :
                      evalLog'[k].err = "NotFound" /\ evalLog'[k].trades = << >>
                /\ PushedBy(strategies[i].id) = {}
                /\ strategies'[i] = strategies[i]]_vars

\* A DCA and a mean-reversion strategy on DOGE-USD after two cycles: both
\* evaluations of the last cycle failed, lastExecution is absent,
\* priceHistory is empty and there is no order.
C37_Witness ==
    /\ cycles = 2
    /\ orderHistory = << >>
    /\ Len(evalLog) = 2
    /\ \A k \in 1..2 : evalLog[k].err = "NotFound"
    /\ \E i, j \in 1..Len(strategies) :
          /\ strategies[i].type = "dca" /\ strategies[i].productId = "DOGE-USD"
          /\ strategies[i].enabled
          /\ strategies[i].parameters.lastExecution = null
          /\ strategies[j].type = "mean_reversion"
          /\ strategies[j].productId = "DOGE-USD"
          /\ strategies[j].enabled
          /\ strategies[j].parameters.priceHistory = << >>

\* The strategies that are enabled.
EnabledStrategies == {i \in 1..Len(strategies) : strategies[i].enabled}

\* C39: in a cycle each enabled strategy submits at most one trade, never a
\* buy and a sell together, and the strategy scan, the only part of these
\* cycles that submits trades, lengthens orderHistory by at most the number
\* of enabled strategies.
C39_OneTradePerStrategyPerCycle ==
    [][cycles' = cycles + 1 =>
        /\ \A i \in 1..Len(strategies) :
              Cardinality(PushedBy(strategies[i].id)) <= 1
        /\ Len(orderHistory') - Len(orderHistory) <= Cardinality(EnabledStrategies)
        /\ \A k \in (Len(orderHistory) + 1)..Len(orderHistory') :
              \E i \in EnabledStrategies : origin'[k] = strategies[i].id]_vars

\* A cycle in which the two enabled strategies, a momentum and a
\* mean-reversion strategy, submitted one trade each, after a cycle in which
\* neither did.
C39_Witness ==
    /\ cycles = 2
    /\ Len(orderHistory) = 2
    /\ Len(evalLog) = 2
    /\ \A k \in 1..2 : Len(evalLog[k].trades) = 1
    /\ \E i, j \in EnabledStrategies :
          /\ strategies[i].type = "momentum" /\ origin[1] = strategies[i].id
          /\ strategies[j].type = "mean_reversion" /\ origin[2] = strategies[j].id

\* C40: the evaluation of a grid strategy submits no trade and changes no
\* parameter: in every step the parameters of a grid strategy stay as they
\* were and no record of orderHistory is pushed by it, so that activeLevels
\* is empty and orderHistory has no record of a grid strategy after any
\* number of cycles.
C40_GridNeverTrades ==
    [][\A i \in 1..Len(strategies) :
          strategies[i].type = "grid" =>
              /\ strategies[i].parameters.activeLevels = << >>
              /\ strategies'[i].parameters = strategies[i].parameters
              /\ PushedBy(strategies[i].id) = {}
              /\ TradesOfType("grid") = {}]_vars

\* After three cycles, the last of which hit line 5 of an enabled grid
\* strategy on BTC-USD, activeLevels is empty and the only orders are those
\* of a strategy of another kind.
C40_Witness ==
    /\ cycles = 3
    /\ orderHistory # << >>
    /\ TradesOfType("grid") = {}
    /\ \E i \in EnabledStrategies :
          /\ strategies[i].type = "grid"
          /\ strategies[i].parameters.activeLevels = << >>
          /\ [id |-> strategies[i].id, level |-> 5] \in hit
          /\ [id |-> strategies[i].id, level |-> 5] \in prevHit

\* ------------------------------------------- claims: trade-executed events
\* The records the tradeExecuted events carried, in the order of the events.
TradeEvents(log) ==
    LET events == SelectSeq(log, LAMBDA e : e.event = "tradeExecuted")
    IN  [k \in 1..Len(events) |-> events[k].payload]

\* C36: a trade submission that returns has appended its record at the end
\* of orderHistory, emitted one tradeExecuted event that carries that
\* record, and returned that record; a submission that fails appends and
\* emits nothing, unless it fails by a listener, which runs after the
\* append and inside the one emit.  The records of the tradeExecuted events
\* are at all times the records of orderHistory, in order, so that there
\* are as many events as records.
C36_OneEventPerTrade ==
    [][/\ TradeEvents(emitted) = orderHistory
       /\ Ordered =>
             IF TheOrder.err = "" \/ TheOrder.err = "ListenerError"
             THEN /\ Len(orderHistory') = Len(orderHistory) + 1
                  /\ LET record == orderHistory'[Len(orderHistory')]
                     IN  /\ orderHistory' = Append(orderHistory, record)
                         /\ emitted' = Append(emitted,
                               [event |-> "tradeExecuted", payload |-> record])
                         /\ TheOrder.err = "" => TheOrder.value = record
             ELSE orderHistory' = orderHistory /\ emitted' = emitted]_vars

\* No listener is registered; a user's order returned its record, a DCA
\* strategy bought in a cycle, and the two events carry the two records.
C36_Witness ==
    /\ listeners.tradeExecuted = "none"
    /\ Len(orderHistory) = 2
    /\ \E k \in 1..Len(trail) :
          /\ trail[k].op = "executeTrade" /\ trail[k].err = ""
          /\ trail[k].value = orderHistory[1]
    /\ origin[2] # 0
    /\ TradeEvents(emitted) = orderHistory

\* ------------------------------------------ claims: account and scheduler
\* The trade submissions of the users, in trail.
Submissions == {k \in 1..Len(trail) : trail[k].op = "executeTrade"}

\* C38: a timer is set, and a cycle has run, only if createAccount gave an
\* account; while there is no account (initialize was not called or failed)
\* no cycle has run and every trade submission fails with NotInitialized;
\* and no evaluation of a cycle, whose trades are submitted with the account
\* set, fails with NotInitialized.
C38_SchedulerNeedsAccount ==
    /\ (timers # {} \/ cycles > 0) => Truthy(account)
    /\ ~Truthy(account) =>
          /\ orderHistory = << >>
          /\ \A k \in Submissions : trail[k].err = "NotInitialized"
    /\ \A k \in 1..Len(evalLog) : evalLog[k].err # "NotInitialized"

\* A user's order failed with NotInitialized before initialize() gave an
\* account; a cycle has run since, and its DCA evaluation bought.
C38_Witness ==
    /\ Truthy(account)
    /\ cycles >= 1
    /\ trail # << >>
    /\ trail[1].op = "executeTrade" /\ trail[1].err = "NotInitialized"
    /\ trail[1].at = 0
    /\ \E k \in 1..Len(evalLog) :
          evalLog[k].type = "dca" /\ evalLog[k].err = "" /\ evalLog[k].trades # << >>

\* --------------------------------------- claims: callbacks and the scan
\* The step in which a timer callback, back from its await of
\* checkPriceAlerts(), calls executeActiveStrategies().
ScanBegins ==
    \E k \in 1..Len(running) :
        /\ running[k] = "checkPriceAlerts"
        /\ Len(running') = Len(running)
        /\ running'[k] = "executeActiveStrategies"

\* C35: the strategy scan of a cycle begins only when every alert callback
\* the alert scan of the cycle called has ended, the trade submission it
\* awaits included: when checkPriceAlerts() has returned, a submission is
\* either one turn from the return of its callback ("resolved", a turn that
\* comes before the timer callback resumes) or over.
C35_ScanAfterCallbacks ==
    [][ScanBegins =>
          \A i \in 1..Len(inflight) : inflight[i] \in {"resolved", "rejected"}]_vars

====
